---- MODULE Spec2Model ----
(***************************************************************************)
(* Reversi service: move resolution engine (game/rules.rs), game state     *)
(* (game/state.rs), session registry (session/ai_battle_manager.rs),       *)
(* battle orchestrator (api/ai_battle/service.rs), fallback policy         *)
(* (api/ai_battle/config_service.rs) and the plain game handlers           *)
(* (api/handlers.rs).                                                      *)
(*                                                                         *)
(* Registry operations are DashMap accesses; every access is one atomic    *)
(* step.  A handler that reads a copy, works on it and writes it back is   *)
(* therefore several steps, and handlers of different tasks interleave     *)
(* between them (tokio multi-threaded runtime, main.rs:14).                *)
(* Wall-clock timestamps are abstracted to the integer clock `now`; the    *)
(* timestamps of game moves and GameState.last_updated, which no handler   *)
(* reads, are left out.                                                    *)
(***************************************************************************)
EXTENDS Integers, Sequences, FiniteSets, TLC

(***************************************************************************)
(* game/types.rs                                                           *)
(***************************************************************************)
BOARD_SIZE == 8

Cell == {"Empty", "Black", "White"}

Player == {"Black", "White"}

Positions == [row : 0..(BOARD_SIZE - 1), col : 0..(BOARD_SIZE - 1)]

Pos(r, c) == [row |-> r, col |-> c]

\* cells[row][col] of Board, flattened row by row: the index of a position
CellIndex(position) == position.row * BOARD_SIZE + position.col + 1

opposite(player) == IF player = "Black" THEN "White" ELSE "Black"

to_cell(player) == player

\* `player as usize` of the enum Player { Black, White }
player_ordinal(player) == IF player = "Black" THEN 0 ELSE 1

(***************************************************************************)
(* game/board.rs                                                           *)
(***************************************************************************)
\* A faulty opening with the colours of the four centre stones exchanged.
BoardNewSwapped ==
    [i \in 1..(BOARD_SIZE * BOARD_SIZE) |->
        IF i = CellIndex(Pos(3, 3)) \/ i = CellIndex(Pos(4, 4)) THEN "Black"
        ELSE IF i = CellIndex(Pos(3, 4)) \/ i = CellIndex(Pos(4, 3)) THEN "White"
        ELSE "Empty"]

BoardNew ==
    [i \in 1..(BOARD_SIZE * BOARD_SIZE) |->
        IF i = CellIndex(Pos(3, 3)) \/ i = CellIndex(Pos(4, 4)) THEN "White"
        ELSE IF i = CellIndex(Pos(3, 4)) \/ i = CellIndex(Pos(4, 3)) THEN "Black"
        ELSE "Empty"]

get_cell(board, position) == board[CellIndex(position)]

is_valid(r, c) == r >= 0 /\ r < BOARD_SIZE /\ c >= 0 /\ c < BOARD_SIZE

is_empty(board, position) == get_cell(board, position) = "Empty"

count_pieces(board) ==
    << Cardinality({i \in DOMAIN board : board[i] = "Black"}),
       Cardinality({i \in DOMAIN board : board[i] = "White"}) >>

(***************************************************************************)
(* game/rules.rs                                                           *)
(***************************************************************************)
DIRECTIONS ==
    << <<-1, -1>>, <<-1, 0>>, <<-1, 1>>,
       <<0, -1>>,             <<0, 1>>,
       <<1, -1>>,  <<1, 0>>,  <<1, 1>> >>

\* The inner while loop of get_flipped_positions for one direction: the
\* run of opponent cells collected so far is `line`; it is returned when the
\* walk reaches a cell of `player`, dropped on an empty cell or the edge.
RECURSIVE WalkDirection(_, _, _, _, _, _, _)
\* A faulty walk that also returns a run that ends on the edge of the board.
WalkDirectionOpenEnded(board, r, c, dr, dc, player, line) ==
    IF ~is_valid(r, c) THEN line
    ELSE LET cell == board[r * BOARD_SIZE + c + 1] IN
         IF cell = to_cell(opposite(player))
         THEN WalkDirection(board, r + dr, c + dc, dr, dc, player,
                            Append(line, Pos(r, c)))
         ELSE IF cell = to_cell(player) THEN line
         ELSE << >>

WalkDirection(board, r, c, dr, dc, player, line) ==
    IF ~is_valid(r, c) THEN << >>
    ELSE LET cell == board[r * BOARD_SIZE + c + 1] IN
         IF cell = to_cell(opposite(player))
         THEN WalkDirection(board, r + dr, c + dc, dr, dc, player,
                            Append(line, Pos(r, c)))
         ELSE IF cell = to_cell(player) THEN line
         ELSE << >>

RECURSIVE FlipsFromDirection(_, _, _, _)
FlipsFromDirection(board, position, player, d) ==
    IF d > Len(DIRECTIONS) THEN << >>
    ELSE WalkDirection(board,
                       position.row + DIRECTIONS[d][1],
                       position.col + DIRECTIONS[d][2],
                       DIRECTIONS[d][1], DIRECTIONS[d][2], player, << >>)
         \o FlipsFromDirection(board, position, player, d + 1)

get_flipped_positions(board, position, player) ==
    FlipsFromDirection(board, position, player, 1)

\* A faulty is_valid_move that does not look at the cell itself.
is_valid_move_occupied(board, position, player) ==
    Len(get_flipped_positions(board, position, player)) > 0

\* A faulty is_valid_move that only requires the cell to be empty.
is_valid_move_unflipped(board, position, player) == is_empty(board, position)

is_valid_move(board, position, player) ==
    IF ~is_empty(board, position) THEN FALSE
    ELSE Len(get_flipped_positions(board, position, player)) > 0

\* The coordinates in the order of the nested loops: row by row.
ScanOrder ==
    [i \in 1..(BOARD_SIZE * BOARD_SIZE) |->
        Pos((i - 1) \div BOARD_SIZE, (i - 1) % BOARD_SIZE)]

\* A faulty get_valid_moves with the loops exchanged: column by column.
get_valid_moves_by_column(board, player) ==
    LET valid(position) == is_valid_move(board, position, player)
        order == [i \in 1..(BOARD_SIZE * BOARD_SIZE) |->
                     Pos((i - 1) % BOARD_SIZE, (i - 1) \div BOARD_SIZE)]
    IN SelectSeq(order, valid)

get_valid_moves(board, player) ==
    LET valid(position) == is_valid_move(board, position, player)
    IN SelectSeq(ScanOrder, valid)

\* !get_valid_moves(board, player).is_empty(): some coordinate of the scan
\* is a valid move.
has_valid_moves(board, player) ==
    \E i \in 0..(BOARD_SIZE * BOARD_SIZE - 1) :
        is_valid_move(board, Pos(i \div BOARD_SIZE, i % BOARD_SIZE), player)

is_game_over(board) ==
    ~has_valid_moves(board, "Black") /\ ~has_valid_moves(board, "White")

determine_winner(board) ==
    LET cnt == count_pieces(board) IN
    IF cnt[1] > cnt[2] THEN "Black"
    ELSE IF cnt[2] > cnt[1] THEN "White"
    ELSE "None"

(***************************************************************************)
(* game/state.rs                                                           *)
(***************************************************************************)
StatusInProgress == [tag |-> "InProgress", winner |-> "None", score |-> <<0, 0>>]

StatusPaused == [tag |-> "Paused", winner |-> "None", score |-> <<0, 0>>]

StatusFinished(winner, score) ==
    [tag |-> "Finished", winner |-> winner, score |-> score]

GameStateNew ==
    [board          |-> BoardNew,
     current_player |-> "Black",
     game_status    |-> StatusInProgress,
     move_history   |-> << >>]

game_is_finished(gs) == gs.game_status.tag = "Finished"

switch_player(gs) ==
    [gs EXCEPT !.current_player = opposite(gs.current_player)]

\* A faulty add_move that does not record the move.
add_move_forgotten(gs, game_move) == gs

add_move(gs, game_move) ==
    [gs EXCEPT !.move_history = Append(gs.move_history, game_move)]

is_paused(gs) == gs.game_status.tag = "Paused"

\* A faulty resume that puts any state that is not InProgress back in play.
resume_any(gs) ==
    IF gs.game_status.tag # "InProgress"
    THEN [gs EXCEPT !.game_status = StatusInProgress]
    ELSE gs

pause(gs) ==
    IF gs.game_status.tag = "InProgress"
    THEN [gs EXCEPT !.game_status = StatusPaused]
    ELSE gs

resume(gs) ==
    IF gs.game_status.tag = "Paused"
    THEN [gs EXCEPT !.game_status = StatusInProgress]
    ELSE gs

finish(gs, winner) ==
    [gs EXCEPT !.game_status = StatusFinished(winner, count_pieces(gs.board))]

MoveNew(player, position, flipped) ==
    [player |-> player, position |-> position, flipped |-> flipped]

\* A faulty apply_move that turns the flipped cells but places no stone.
apply_move_unplaced(gs, position) ==
    IF game_is_finished(gs)
    THEN [ok |-> FALSE, err |-> "GameFinished", state |-> gs, flipped |-> << >>]
    ELSE IF ~is_valid_move(gs.board, position, gs.current_player)
    THEN [ok |-> FALSE, err |-> "InvalidMove", state |-> gs, flipped |-> << >>]
    ELSE LET flipped == get_flipped_positions(gs.board, position, gs.current_player)
             flipSet == {CellIndex(flipped[i]) : i \in 1..Len(flipped)}
             board2  == [i \in DOMAIN gs.board |->
                            IF i \in flipSet
                            THEN to_cell(gs.current_player)
                            ELSE gs.board[i]]
         IN [ok      |-> TRUE,
             err     |-> "None",
             state   |-> add_move([gs EXCEPT !.board = board2],
                                  MoveNew(gs.current_player, position, flipped)),
             flipped |-> flipped]

\* A faulty apply_move without the check for a finished game.
apply_move_unguarded(gs, position) ==
    IF ~is_valid_move(gs.board, position, gs.current_player)
    THEN [ok |-> FALSE, err |-> "InvalidMove", state |-> gs, flipped |-> << >>]
    ELSE LET flipped == get_flipped_positions(gs.board, position, gs.current_player)
             flipSet == {CellIndex(flipped[i]) : i \in 1..Len(flipped)}
             board2  == [i \in DOMAIN gs.board |->
                            IF i = CellIndex(position) \/ i \in flipSet
                            THEN to_cell(gs.current_player)
                            ELSE gs.board[i]]
         IN [ok      |-> TRUE,
             err     |-> "None",
             state   |-> add_move([gs EXCEPT !.board = board2],
                                  MoveNew(gs.current_player, position, flipped)),
             flipped |-> flipped]

\* A faulty apply_move that also hands the turn to the other player.
apply_move_switching(gs, position) ==
    IF game_is_finished(gs)
    THEN [ok |-> FALSE, err |-> "GameFinished", state |-> gs, flipped |-> << >>]
    ELSE IF ~is_valid_move(gs.board, position, gs.current_player)
    THEN [ok |-> FALSE, err |-> "InvalidMove", state |-> gs, flipped |-> << >>]
    ELSE LET flipped == get_flipped_positions(gs.board, position, gs.current_player)
             flipSet == {CellIndex(flipped[i]) : i \in 1..Len(flipped)}
             board2  == [i \in DOMAIN gs.board |->
                            IF i = CellIndex(position) \/ i \in flipSet
                            THEN to_cell(gs.current_player)
                            ELSE gs.board[i]]
         IN [ok      |-> TRUE,
             err     |-> "None",
             state   |-> switch_player(
                             add_move([gs EXCEPT !.board = board2],
                                      MoveNew(gs.current_player, position, flipped))),
             flipped |-> flipped]

\* ReversiRules::apply_move: the Result and, for Ok, the mutated state.
apply_move(gs, position) ==
    IF game_is_finished(gs)
    THEN [ok |-> FALSE, err |-> "GameFinished", state |-> gs, flipped |-> << >>]
    ELSE IF ~is_valid_move(gs.board, position, gs.current_player)
    THEN [ok |-> FALSE, err |-> "InvalidMove", state |-> gs, flipped |-> << >>]
    ELSE LET flipped == get_flipped_positions(gs.board, position, gs.current_player)
             flipSet == {CellIndex(flipped[i]) : i \in 1..Len(flipped)}
             board2  == [i \in DOMAIN gs.board |->
                            IF i = CellIndex(position) \/ i \in flipSet
                            THEN to_cell(gs.current_player)
                            ELSE gs.board[i]]
         IN [ok      |-> TRUE,
             err     |-> "None",
             state   |-> add_move([gs EXCEPT !.board = board2],
                                  MoveNew(gs.current_player, position, flipped)),
             flipped |-> flipped]

\* A faulty handle_turn that passes the turn but never ends the game.
handle_turn_unfinished(gs) ==
    IF has_valid_moves(gs.board, gs.current_player)
    THEN [changed |-> FALSE, state |-> gs]
    ELSE [changed |-> TRUE, state |-> switch_player(gs)]

\* ReversiRules::handle_turn: the returned bool and the mutated state.
handle_turn(gs) ==
    IF has_valid_moves(gs.board, gs.current_player)
    THEN [changed |-> FALSE, state |-> gs]
    ELSE LET gs1 == switch_player(gs) IN
         IF has_valid_moves(gs1.board, gs1.current_player)
         THEN [changed |-> TRUE, state |-> gs1]
         ELSE [changed |-> TRUE,
               state   |-> finish(gs1, determine_winner(gs1.board))]

(***************************************************************************)
(* ai/strategies.rs, ai/local_service.rs, ai/mock_service.rs               *)
(* An adapter result is [ok, position, err].                               *)
(***************************************************************************)
AiDifficulty == {"Easy", "Medium", "Hard"}

NoPosition == Pos(0, 0)

AiOk(position) == [ok |-> TRUE, position |-> position, err |-> "None"]

AiErr(err) == [ok |-> FALSE, position |-> NoPosition, err |-> err]

\* A faulty RandomAI that always takes the first legal move of the scan.
RandomAI_calculate_move_first(gs) ==
    IF game_is_finished(gs) THEN AiErr("StrategyError")
    ELSE LET valid_moves == get_valid_moves(gs.board, gs.current_player) IN
         IF Len(valid_moves) = 0 THEN AiErr("NoValidMoves")
         ELSE AiOk(valid_moves[1])

\* RandomAI::calculate_move
RandomAI_calculate_move(gs) ==
    IF game_is_finished(gs) THEN AiErr("StrategyError")
    ELSE LET valid_moves == get_valid_moves(gs.board, gs.current_player) IN
         IF Len(valid_moves) = 0 THEN AiErr("NoValidMoves")
         ELSE LET index == (Len(gs.move_history) * 7
                            + player_ordinal(gs.current_player) * 3)
                           % Len(valid_moves)
              IN AiOk(valid_moves[index + 1])

\* create_ai_strategy followed by AIStrategy::calculate_move: MinimaxAI and
\* AlphaBetaAI are placeholders that always fail.
strategy_calculate_move(difficulty, gs) ==
    IF difficulty = "Easy" THEN RandomAI_calculate_move(gs)
    ELSE AiErr("StrategyError")

\* LocalAIService::calculate_move (the simulated delay is a suspension only)
LocalAIService_calculate_move(gs, difficulty) ==
    IF game_is_finished(gs) THEN AiErr("StrategyError")
    ELSE IF Len(get_valid_moves(gs.board, gs.current_player)) = 0
    THEN AiErr("NoValidMoves")
    ELSE strategy_calculate_move(difficulty, gs)

\* MockAIService::calculate_move with MockAIConfig mc =
\* [available, should_error, has_fixed_move, fixed_move]; every difficulty is
\* supported by the default configuration.
MockAIService_calculate_move(mc, gs, difficulty) ==
    IF ~mc.available THEN AiErr("ServiceUnavailable")
    ELSE IF mc.should_error THEN AiErr("StrategyError")
    ELSE IF game_is_finished(gs) THEN AiErr("StrategyError")
    ELSE LET valid_moves == get_valid_moves(gs.board, gs.current_player)
             listed == \E i \in 1..Len(valid_moves) : valid_moves[i] = mc.fixed_move
         IN IF mc.has_fixed_move /\ listed THEN AiOk(mc.fixed_move)
            ELSE IF Len(valid_moves) = 0 THEN AiErr("NoValidMoves")
            ELSE AiOk(valid_moves[1])

MockDefault ==
    [available |-> TRUE, should_error |-> FALSE, response_time_ms |-> 100,
     has_fixed_move |-> FALSE, fixed_move |-> NoPosition]

\* MockAIService::new_error
MockError == [MockDefault EXCEPT !.should_error = TRUE]

\* MockAIService::new_with_fixed_move
MockFixedMove(position) ==
    [MockDefault EXCEPT !.has_fixed_move = TRUE, !.fixed_move = position,
                        !.response_time_ms = 0]

\* LocalAIService::get_thinking_time; simulate_thinking_time is true for
\* LocalAIService::new and false for new_fast.
get_thinking_time(simulate_thinking_time, difficulty) ==
    IF ~simulate_thinking_time THEN 0
    ELSE CASE difficulty = "Easy"   -> 500
           [] difficulty = "Medium" -> 1500
           [] OTHER                 -> 3000

\* A faulty adapter that sleeps before it looks at the game state.
LocalAIService_sleeps_first(simulate_thinking_time, gs, difficulty) ==
    get_thinking_time(simulate_thinking_time, difficulty) > 0

\* LocalAIService::calculate_move reaches its sleep (lines 82-85): the game
\* is not finished, the mover has a valid move, the thinking time is not 0.
LocalAIService_sleeps(simulate_thinking_time, gs, difficulty) ==
    /\ ~game_is_finished(gs)
    /\ has_valid_moves(gs.board, gs.current_player)
    /\ get_thinking_time(simulate_thinking_time, difficulty) > 0

\* MockAIService::calculate_move reaches its sleep (lines 122-124).
MockAIService_sleeps(mc, gs, difficulty) ==
    /\ mc.available
    /\ ~mc.should_error
    /\ ~game_is_finished(gs)
    /\ mc.response_time_ms > 0

\* The implementations a caller can ask for a move: a strategy made by
\* create_ai_strategy for the difficulty, LocalAIService::new, new_fast, and
\* MockAIService::new_default.
AdapterKinds == {"Strategy", "Local", "LocalFast", "Mock"}

calculate_move(service, gs, difficulty) ==
    CASE service = "Strategy" -> strategy_calculate_move(difficulty, gs)
      [] service = "Mock" -> MockAIService_calculate_move(MockDefault, gs, difficulty)
      [] OTHER -> LocalAIService_calculate_move(gs, difficulty)

calculate_move_sleeps(service, gs, difficulty) ==
    CASE service = "Strategy" -> FALSE
      [] service = "Mock" -> MockAIService_sleeps(MockDefault, gs, difficulty)
      [] OTHER -> LocalAIService_sleeps(service = "Local", gs, difficulty)

(***************************************************************************)
(* api/ai_battle/dto.rs: AiBattleSession                                   *)
(***************************************************************************)
SessionInProgress == [tag |-> "InProgress", winner |-> "None"]

SessionFinished(winner) == [tag |-> "Finished", winner |-> winner]

AiBattleSessionNew(id, ai_difficulty, time) ==
    [id             |-> id,
     game_state     |-> GameStateNew,
     ai_difficulty  |-> ai_difficulty,
     current_player |-> GameStateNew.current_player,
     ai_thinking    |-> FALSE,
     last_move_at   |-> time,
     move_history   |-> << >>,
     status         |-> SessionInProgress]

is_ai_turn(session) == session.current_player = "White" /\ ~session.ai_thinking

\* A faulty is_player_turn that lets every caller through.
is_player_turn_unchecked(session) == TRUE

is_player_turn(session) == session.current_player = "Black"

is_finished(session) == session.status.tag = "Finished"

MoveRecordNew(player, position) == [player |-> player, position |-> position]

add_move_record(session, move_record, time) ==
    [session EXCEPT !.move_history = Append(session.move_history, move_record),
                    !.last_move_at = time]

(***************************************************************************)
(* session/ai_battle_manager.rs: the registry is the function `sessions`   *)
(* from the live ids to their sessions.                                    *)
(***************************************************************************)
session_exists(map, id) == id \in DOMAIN map

\* DashMap::insert
map_insert(map, id, session) ==
    [k \in (DOMAIN map) \cup {id} |-> IF k = id THEN session ELSE map[k]]

\* DashMap::remove
map_remove(map, id) == [k \in (DOMAIN map) \ {id} |-> map[k]]

\* A faulty update_session that inserts the session when the key is absent.
update_session_upsert(map, session) ==
    [ok |-> TRUE, map |-> map_insert(map, session.id, session)]

\* update_session: overwrite the entry when the key is present
update_session(map, session) ==
    IF session_exists(map, session.id)
    THEN [ok |-> TRUE, map |-> [map EXCEPT ![session.id] = session]]
    ELSE [ok |-> FALSE, map |-> map]

\* A faulty filter that also takes a session whose timestamp is the cutoff.
is_expired_inclusive(session, cutoff_time) ==
    session.last_move_at <= cutoff_time

\* line 100: the filter of cleanup_inactive_sessions
is_expired(session, cutoff_time) == session.last_move_at < cutoff_time

\* MoveRecord::from_move
from_move(game_move) == MoveRecordNew(game_move.player, game_move.position)

\* A faulty get_move_history that returns the records kept in the session.
get_move_history_session(map, id) ==
    IF ~session_exists(map, id) THEN [ok |-> FALSE, moves |-> << >>]
    ELSE [ok |-> TRUE, moves |-> map[id].move_history]

\* AiBattleService::get_move_history: get_session, then the moves of the
\* game state as records
get_move_history(map, id) ==
    IF ~session_exists(map, id) THEN [ok |-> FALSE, moves |-> << >>]
    ELSE LET log == map[id].game_state.move_history IN
         [ok |-> TRUE, moves |-> [i \in 1..Len(log) |-> from_move(log[i])]]

(***************************************************************************)
(* api/ai_battle/service.rs: the parts of the handlers that work on the    *)
(* task's own copy of the session.                                         *)
(***************************************************************************)
Result(status, detail, ai_move) ==
    [status |-> status, detail |-> detail, ai_move |-> ai_move]

ResultNone == Result("None", "None", << >>)

\* A faulty make_player_move that does not copy the new mover to the session
\* when the game goes on.
player_move_local_unmirrored(session, position) ==
    IF is_finished(session)
    THEN [next |-> "reject", status |-> "GameAlreadyFinished", detail |-> "None",
          session |-> session]
    ELSE IF ~is_player_turn(session)
    THEN [next |-> "reject", status |-> "NotPlayerTurn", detail |-> "None",
          session |-> session]
    ELSE IF session.ai_thinking
    THEN [next |-> "reject", status |-> "AiThinkingError", detail |-> "AiBusy",
          session |-> session]
    ELSE IF ~is_valid_move(session.game_state.board, position, session.current_player)
    THEN [next |-> "reject", status |-> "InvalidMove", detail |-> "None",
          session |-> session]
    ELSE LET applied == apply_move(session.game_state, position) IN
         IF ~applied.ok
         THEN [next |-> "reject", status |-> "GameError", detail |-> applied.err,
               session |-> session]
         ELSE LET gs1 == switch_player(applied.state)
                  gs2 == IF is_game_over(gs1.board)
                         THEN finish(gs1, determine_winner(gs1.board))
                         ELSE gs1
              IN IF game_is_finished(gs2)
                 THEN [next |-> "store_finished", status |-> "Ok", detail |-> "None",
                       session |->
                           [session EXCEPT
                               !.game_state = gs2,
                               !.status = SessionFinished(gs2.game_status.winner),
                               !.current_player = gs2.current_player]]
                 ELSE LET s3 == [session EXCEPT !.game_state = gs2]
                      IN IF ~is_ai_turn(s3)
                         THEN [next |-> "store_continue", status |-> "Ok",
                               detail |-> "None", session |-> s3]
                         ELSE [next |-> "store_thinking", status |-> "Ok",
                               detail |-> "None",
                               session |-> [s3 EXCEPT !.ai_thinking = TRUE]]

\* make_player_move, lines 78-142, on the copy `session` returned by
\* get_session: the checks, the application of the move, the mover switch
\* and the game-over check.  `next` names what the handler does next.
player_move_local(session, position) ==
    IF is_finished(session)
    THEN [next |-> "reject", status |-> "GameAlreadyFinished", detail |-> "None",
          session |-> session]
    ELSE IF ~is_player_turn(session)
    THEN [next |-> "reject", status |-> "NotPlayerTurn", detail |-> "None",
          session |-> session]
    ELSE IF session.ai_thinking
    THEN [next |-> "reject", status |-> "AiThinkingError", detail |-> "AiBusy",
          session |-> session]
    ELSE IF ~is_valid_move(session.game_state.board, position, session.current_player)
    THEN [next |-> "reject", status |-> "InvalidMove", detail |-> "None",
          session |-> session]
    ELSE LET applied == apply_move(session.game_state, position) IN
         IF ~applied.ok
         THEN [next |-> "reject", status |-> "GameError", detail |-> applied.err,
               session |-> session]
         ELSE LET gs1 == switch_player(applied.state)
                  gs2 == IF is_game_over(gs1.board)
                         THEN finish(gs1, determine_winner(gs1.board))
                         ELSE gs1
              IN IF game_is_finished(gs2)
                 THEN [next |-> "store_finished", status |-> "Ok", detail |-> "None",
                       session |->
                           [session EXCEPT
                               !.game_state = gs2,
                               !.status = SessionFinished(gs2.game_status.winner),
                               !.current_player = gs2.current_player]]
                 ELSE LET s3 == [session EXCEPT
                                    !.game_state = gs2,
                                    !.current_player = gs2.current_player]
                      IN IF ~is_ai_turn(s3)
                         THEN [next |-> "store_continue", status |-> "Ok",
                               detail |-> "None", session |-> s3]
                         ELSE [next |-> "store_thinking", status |-> "Ok",
                               detail |-> "None",
                               session |-> [s3 EXCEPT !.ai_thinking = TRUE]]

\* A faulty process_ai_move that leaves the status of the session alone when
\* the reply ends the game.
process_ai_move_unfinalized(session, ai_result, time) ==
    IF ~ai_result.ok
    THEN [result  |-> Result("AiThinkingError", ai_result.err, << >>),
          session |-> [session EXCEPT !.ai_thinking = FALSE]]
    ELSE LET ai_position == ai_result.position
             s1 == add_move_record(session, MoveRecordNew("White", ai_position), time)
             applied == apply_move(s1.game_state, ai_position)
         IN IF ~applied.ok
            THEN [result  |-> Result("GameError", applied.err, << >>),
                  session |-> [s1 EXCEPT !.ai_thinking = FALSE]]
            ELSE LET gs1 == switch_player(applied.state)
                     gs2 == IF is_game_over(gs1.board)
                            THEN finish(gs1, determine_winner(gs1.board))
                            ELSE gs1
                     s2 == [s1 EXCEPT !.game_state = gs2]
                 IN [result  |-> Result("Ok", "None", << ai_position >>),
                     session |-> [s2 EXCEPT !.current_player = gs2.current_player,
                                            !.ai_thinking = FALSE]]

\* process_ai_move on the copy, given the adapter's result, followed by the
\* `session.ai_thinking = false` of both match arms of make_player_move.
process_ai_move(session, ai_result, time) ==
    IF ~ai_result.ok
    THEN [result  |-> Result("AiThinkingError", ai_result.err, << >>),
          session |-> [session EXCEPT !.ai_thinking = FALSE]]
    ELSE LET ai_position == ai_result.position
             s1 == add_move_record(session, MoveRecordNew("White", ai_position), time)
             applied == apply_move(s1.game_state, ai_position)
         IN IF ~applied.ok
            THEN [result  |-> Result("GameError", applied.err, << >>),
                  session |-> [s1 EXCEPT !.ai_thinking = FALSE]]
            ELSE LET gs1 == switch_player(applied.state)
                     gs2 == IF is_game_over(gs1.board)
                            THEN finish(gs1, determine_winner(gs1.board))
                            ELSE gs1
                     s2 == [s1 EXCEPT !.game_state = gs2]
                     s3 == IF game_is_finished(gs2)
                           THEN [s2 EXCEPT !.status =
                                    SessionFinished(gs2.game_status.winner)]
                           ELSE s2
                 IN [result  |-> Result("Ok", "None", << ai_position >>),
                     session |-> [s3 EXCEPT !.current_player = gs2.current_player,
                                            !.ai_thinking = FALSE]]

\* change_difficulty, lines 229-235, on the copy
change_difficulty_local(session, new_difficulty) ==
    IF session.ai_thinking
    THEN [next |-> "reject", session |-> session]
    ELSE [next |-> "store", session |-> [session EXCEPT !.ai_difficulty = new_difficulty]]

(***************************************************************************)
(* Bounds and inputs of the model                                          *)
(***************************************************************************)
NumTasks == 2

MaxTime == 1

\* Spec: one session, two requests at a time, the first exchanges of a game.
BattleIds == 1

BattlePlies == 4

\* SpecGame, SpecAdmission: one request at a time.
SequentialTasks == 1

\* SpecGame: one session played to the end of the lines below.
\* SpecEndgame: two requests at a time, OverLine.

GamePlies == 11

EndgamePlies == 9

\* SpecFinal: one request at a time, OverLine and WhiteOverLine to their ends.
FinalPlies == 10

\* SpecMoves: OverLine, and a call on the finished session.
MovesPlies == 10

\* SpecReplay: two sessions, two exchanges each.
ReplayCeiling == 2

ReplayIds == 2

ReplayPlies == 4

\* SpecRegistry: a ceiling of two sessions, three session ids.
RegistryCeiling == 2

RegistryIds == 3

\* SpecRules: one game state; SpecPlain: one stored game.
RulesIds == 1

PlainIds == 1

\* SpecPolicy: max_retry_attempts from 0 to MaxAttempts.
MaxAttempts == 3

\* SpecSession: a ceiling of one session, one session id, one exchange.
SessionCeiling == 1

SessionIds == 1

SessionPlies == 2

Tasks == 1..NumTasks

Line(cells) == [i \in 1..Len(cells) |-> Pos(cells[i][1], cells[i][2])]

\* Black wipes White out with the ninth move: the game ends on a human move.
OverLine ==
    Line(<< <<4,5>>, <<3,5>>, <<2,6>>, <<5,6>>, <<4,6>>, <<5,5>>, <<2,3>>,
            <<3,6>>, <<6,6>> >>)

\* After the eleventh move White has no legal move and Black has one.
WhitePassLine ==
    Line(<< <<4,5>>, <<3,5>>, <<2,6>>, <<5,6>>, <<4,6>>, <<3,6>>, <<2,5>>,
            <<4,2>>, <<4,7>>, <<1,6>>, <<5,7>> >>)

\* After the eighth move Black has no legal move and White has one.
BlackPassLine ==
    Line(<< <<4,5>>, <<5,5>>, <<2,3>>, <<4,6>>, <<4,7>>, <<3,7>>, <<6,6>>,
            <<5,7>> >>)

\* White wipes Black out with the tenth move: the game ends on a reply.
WhiteOverLine ==
    Line(<< <<4,5>>, <<3,5>>, <<2,2>>, <<5,3>>, <<2,3>>, <<1,3>>, <<5,4>>,
            <<5,5>>, <<3,2>>, <<3,1>> >>)

\* A second legal opening, with the reply MockAIService (first legal move)
\* gives to it.
AltLine == Line(<< <<2,3>>, <<2,2>> >>)

\* A client that submits its second move (2,6) already on the opening board.
EarlyLine == Line(<< <<2,6>> >>)

\* WhitePassLine played on: Black moves again after White's pass, then White.
WhitePassOnLine == WhitePassLine \o Line(<< <<1,7>>, <<2,7>> >>)

\* BlackPassLine played on: White moves again after Black's pass, then Black.
BlackPassOnLine == BlackPassLine \o Line(<< <<6,4>>, <<6,5>> >>)

LineNames ==
    {"Over", "WhitePass", "BlackPass", "Alt", "Early", "WhitePassOn", "BlackPassOn",
     "WhiteOver"}

LineNamed(name) ==
    CASE name = "Over"      -> OverLine
      [] name = "WhitePass" -> WhitePassLine
      [] name = "BlackPass" -> BlackPassLine
      [] name = "Alt"       -> AltLine
      [] name = "WhitePassOn" -> WhitePassOnLine
      [] name = "BlackPassOn" -> BlackPassOnLine
      [] name = "WhiteOver" -> WhiteOverLine
      [] OTHER              -> EarlyLine

\* (3,3) is occupied from the start: never a legal placement.
OccupiedCell == Pos(3, 3)

\* The positions submitted to a session whose log has n entries, by a caller
\* or by the scripted adapter: move n+1 of each line, and the occupied cell.
LineInputs(names, n) ==
    {LineNamed(k)[n + 1] : k \in {x \in names : Len(LineNamed(x)) > n}}
    \cup {OccupiedCell}

\* A request body with a row outside the board.
OutOfBounds == [row |-> BOARD_SIZE, col |-> 0]

\* The fixed move of the secondary adapter: White's reply of AltLine.
FixedReply == AltLine[2]

DifficultyInputs == {"Easy", "Hard"}

\* What AIService::calculate_move of the configured adapter may return.
\* "Scripted" stands for any other implementation of the AIService trait
\* (new_with_ai_service takes any Arc<dyn AIService>): it fails or returns
\* one of LineInputs, legal or not.
\* "Failing" is the mock that always fails, "Fixed" the mock with the fixed
\* move FixedReply, "Unreliable" an implementation that answers with the
\* first legal move or fails in one of two ways.
\* A faulty adapter choice: whatever is configured, the adapter may fail or
\* answer with any of LineInputs.
AdapterResultsAny(service, names, gs, difficulty) ==
    {AiErr("StrategyError")}
        \cup {AiOk(p) : p \in LineInputs(names, Len(gs.move_history))}

AdapterResults(service, names, gs, difficulty) ==
    CASE service = "Local" -> {LocalAIService_calculate_move(gs, difficulty)}
      [] service = "Mock"  -> {MockAIService_calculate_move(MockDefault, gs, difficulty)}
      [] service = "Failing" ->
             {MockAIService_calculate_move(MockError, gs, difficulty)}
      [] service = "Fixed" ->
             {MockAIService_calculate_move(MockFixedMove(FixedReply), gs, difficulty)}
      [] service = "Unreliable" ->
             {AiErr("ServiceUnavailable"), AiErr("Timeout"),
              MockAIService_calculate_move(MockDefault, gs, difficulty)}
      [] OTHER -> {AiErr("StrategyError")}
                  \cup {AiOk(p) : p \in LineInputs(names, Len(gs.move_history))}

(***************************************************************************)
(* State                                                                   *)
(***************************************************************************)
VARIABLES
    sessions,   \* AiBattleSessionManager.sessions: live id -> AiBattleSession
    next_id,    \* the next fresh session id (Uuid::new_v4 never repeats)
    now,        \* Utc::now()
    task,       \* per task: the frame of the handler it is running
    response,   \* the response this step delivered, if it delivered one
    config,     \* max_sessions, session_timeout_minutes, the adapter and the
                \* adapters set_ai_service may put in its place, bounds
    games,      \* AppState.games of api/handlers.rs: game id -> GameState
    call,       \* the call on a GameState this step made, and what it returned
    policy      \* ConfigurableAiBattleService and its calculate_move_with_fallback

vars == << sessions, next_id, now, task, response, config, games, call, policy >>

\* The part of the state the session registry and the battle orchestrator
\* do not touch.
others == << games, call, policy >>

LogPositions(log) == [i \in 1..Len(log) |-> log[i].position]

IdleFrame ==
    [pc            |-> "idle",
     op            |-> "none",
     id            |-> 0,
     position      |-> NoPosition,
     difficulty    |-> "Easy",
     base          |-> << >>,
     copy          |-> << >>,
     next          |-> "none",
     pending       |-> ResultNone,
     cutoff_time   |-> 0,
     present       |-> {},
     visited       |-> {},
     expired       |-> << >>,
     removed_count |-> 0]

NoResponse ==
    [task |-> 0, op |-> "none", id |-> 0, position |-> NoPosition,
     base |-> << >>, result |-> ResultNone, count |-> 0]

\* A call on a GameState: the operation, its arguments and what it returned
\* (status and err of a Result, the flip list, the bool of handle_turn).
Call(op, id, position, winner, status, err, flipped, changed) ==
    [op |-> op, id |-> id, position |-> position, winner |-> winner,
     status |-> status, err |-> err, flipped |-> flipped, changed |-> changed]

NoCall == Call("none", 0, NoPosition, "None", "None", "None", << >>, FALSE)

\* FallbackConfig: enable_fallback, max_retry_attempts and the secondary
\* adapter ("None" when ConfigurableAiBattleService holds none).
FallbackConfig(enable_fallback, max_retry_attempts, fallback_ai_service) ==
    [enable_fallback     |-> enable_fallback,
     max_retry_attempts  |-> max_retry_attempts,
     fallback_ai_service |-> fallback_ai_service]

PolicyNoOutcome == [status |-> "None", position |-> NoPosition,
                    attempts |-> 0, error |-> "None"]

\* The frame of calculate_move_with_fallback: its arguments, `attempts`, the
\* error `e` of the last primary call, the calls made on each adapter so far
\* and, once it has returned, its result.
PolicyIdle(fallback_config) ==
    [cfg            |-> fallback_config,
     pc             |-> "idle",
     game_state     |-> GameStateNew,
     difficulty     |-> "Easy",
     attempts       |-> 0,
     e              |-> "None",
     primary_calls  |-> 0,
     fallback_calls |-> 0,
     outcome        |-> PolicyNoOutcome]

\* AiBattleService::new and new_with_ai_service: no fallback policy.
NoPolicy == PolicyIdle(FallbackConfig(FALSE, 0, "None"))

InitState(cfgs) ==
    /\ sessions = << >>
    /\ next_id = 1
    /\ now = 0
    /\ task = [t \in Tasks |-> IdleFrame]
    /\ response = NoResponse
    /\ config \in cfgs
    /\ games = << >>
    /\ call = NoCall
    /\ policy = NoPolicy

\* The handler of task t returns `result`: the response is delivered and
\* the task is free for the next request.
Done(t, frame, result) ==
    /\ task' = [task EXCEPT ![t] = IdleFrame]
    /\ response' = [task |-> t, op |-> frame.op, id |-> frame.id,
                    position |-> frame.position, base |-> frame.base,
                    result |-> result, count |-> frame.removed_count]

\* The handler of task t moves on to its next step.
Goto(t, frame) ==
    /\ task' = [task EXCEPT ![t] = frame]
    /\ response' = NoResponse

\* A request is served by the first free task.
Idle(t) ==
    /\ t <= config.tasks
    /\ task[t].pc = "idle"
    /\ \A u \in 1..(t - 1) : task[u].pc # "idle"

StoredLog(id) ==
    IF session_exists(sessions, id) THEN sessions[id].game_state.move_history ELSE << >>

(***************************************************************************)
(* create_session                                                          *)
(***************************************************************************)
\* DashMap::len (line 47) adds up the lengths of the shards, holding the
\* read lock of one shard at a time: an entry counts if it is in its shard
\* when that shard is read.  The shard of a session is the hash of a random
\* Uuid, so any two sessions may be read at different moments, and other
\* requests run between two reads.  A session removed before its shard is
\* read is not counted; one inserted during the pass is counted if its
\* shard is still ahead; one counted and then removed stays in the sum.
CreatesInFlight ==
    Cardinality({t \in Tasks : task[t].pc \in {"create_new", "create_insert"}})

\* lines 45-47: create_session is called and len() begins its pass over the
\* shards
CreateCheck(t, difficulty) ==
    /\ Idle(t)
    /\ Goto(t, [IdleFrame EXCEPT !.pc = "create_len", !.op = "create",
                                 !.difficulty = difficulty,
                                 !.present = DOMAIN sessions])
    /\ UNCHANGED << sessions, next_id, now, config, others >>

\* line 47, inside len(): the shard of `id` is read and its entry is added
\* to the sum
CreateLen(t, id) ==
    /\ task[t].pc = "create_len"
    /\ session_exists(sessions, id)
    /\ id \notin task[t].visited
    /\ Goto(t, [task[t] EXCEPT !.visited = @ \cup {id}])
    /\ UNCHANGED << sessions, next_id, now, config, others >>

\* A faulty ceiling check, `>` for `>=`: one session too many is admitted.
CreateCeilingOffByOne(t) ==
    /\ task[t].pc = "create_len"
    /\ (task[t].present \cap DOMAIN sessions) \subseteq task[t].visited
    /\ LET frame == [task[t] EXCEPT !.present = {}, !.visited = {}] IN
       IF Cardinality(task[t].visited) > config.max_sessions
       THEN Done(t, frame, Result("MaxSessionsReached", "None", << >>))
       ELSE /\ next_id + CreatesInFlight <= config.max_ids
            /\ Goto(t, [frame EXCEPT !.pc = "create_new"])
    /\ UNCHANGED << sessions, next_id, now, config, others >>

\* lines 47-49: every shard has been read (every entry that has been in the
\* map since the pass began has been counted) and the sum is compared with
\* the ceiling.  The guard on max_ids bounds the model: an admission that
\* needs an id beyond the bound is not explored.
CreateCeiling(t) ==
    /\ task[t].pc = "create_len"
    /\ (task[t].present \cap DOMAIN sessions) \subseteq task[t].visited
    /\ LET frame == [task[t] EXCEPT !.present = {}, !.visited = {}] IN
       IF Cardinality(task[t].visited) >= config.max_sessions
       THEN Done(t, frame, Result("MaxSessionsReached", "None", << >>))
       ELSE /\ next_id + CreatesInFlight <= config.max_ids
            /\ Goto(t, [frame EXCEPT !.pc = "create_new"])
    /\ UNCHANGED << sessions, next_id, now, config, others >>

\* lines 51-52: AiBattleSession::new builds the session and reads the clock
\* (dto.rs:131-146); the session is held by the caller until the insert.
\* Its Uuid is drawn here; the model names a session by its place in the
\* order of insertion, so `id` is filled in by CreateInsert.
CreateNew(t) ==
    /\ task[t].pc = "create_new"
    /\ Goto(t, [task[t] EXCEPT
                   !.pc = "create_insert",
                   !.copy = << AiBattleSessionNew(0, task[t].difficulty, now) >>])
    /\ UNCHANGED << sessions, next_id, now, config, others >>

\* lines 54-56: DashMap::insert of the session built by CreateNew, and its
\* id is returned to create_ai_battle
CreateInsert(t) ==
    /\ task[t].pc = "create_insert"
    /\ sessions' = map_insert(sessions, next_id,
                              [task[t].copy[1] EXCEPT !.id = next_id])
    /\ next_id' = next_id + 1
    /\ Goto(t, [task[t] EXCEPT !.pc = "create_get", !.id = next_id,
                               !.copy = << >>])
    /\ UNCHANGED << now, config, others >>

\* create_ai_battle, lines 61-63: get_session of the id just inserted.  No
\* lock is held since the insert, so the session may be gone again.
CreateGet(t) ==
    /\ task[t].pc = "create_get"
    /\ IF session_exists(sessions, task[t].id)
       THEN Done(t, [task[t] EXCEPT !.base =
                        LogPositions(sessions[task[t].id].game_state.move_history)],
                 Result("Ok", "None", << >>))
       ELSE Done(t, task[t], Result("GameNotFound", "None", << >>))
    /\ UNCHANGED << sessions, next_id, now, config, others >>

(***************************************************************************)
(* make_player_move                                                        *)
(***************************************************************************)
\* line 76 get_session, then lines 78-142 on the copy: the call is
\* rejected, or the copy with the human move applied is kept for the store.
MoveRead(t, id, position) ==
    LET frame == [IdleFrame EXCEPT !.op = "move", !.id = id,
                                   !.position = position] IN
    IF ~session_exists(sessions, id)
    THEN Done(t, frame, Result("GameNotFound", "None", << >>))
    ELSE LET session == sessions[id]
             local == player_move_local(session, position)
             frame2 == [frame EXCEPT
                           !.base = LogPositions(session.game_state.move_history)]
         IN IF local.next = "reject"
            THEN Done(t, frame2, Result(local.status, local.detail, << >>))
            ELSE Goto(t, [frame2 EXCEPT !.pc = "move_store",
                                        !.next = local.next,
                                        !.copy = << local.session >>])

\* A faulty handler that sets the stored thinking flag as it reads the
\* session, before the checks, and does not clear it when it rejects.
MoveBeginLocking(t, id) ==
    /\ Idle(t)
    /\ Len(StoredLog(id)) < config.max_plies
    /\ \E position \in LineInputs(config.lines, Len(StoredLog(id))) :
           MoveRead(t, id, position)
    /\ sessions' = IF session_exists(sessions, id)
                   THEN [sessions EXCEPT ![id].ai_thinking = TRUE]
                   ELSE sessions
    /\ UNCHANGED << next_id, now, config, others >>

\* The guard on max_plies bounds the model.
MoveBegin(t, id) ==
    /\ Idle(t)
    /\ Len(StoredLog(id)) < config.max_plies
    /\ \E position \in LineInputs(config.lines, Len(StoredLog(id))) :
           MoveRead(t, id, position)
    /\ UNCHANGED << sessions, next_id, now, config, others >>

\* lines 117, 131, 143: update_session of the copy after the human move
MoveStore(t) ==
    /\ task[t].pc = "move_store"
    /\ LET upd == update_session(sessions, task[t].copy[1]) IN
       /\ sessions' = upd.map
       /\ IF ~upd.ok
          THEN Done(t, task[t], Result("GameNotFound", "None", << >>))
          ELSE IF task[t].next = "store_thinking"
          THEN Goto(t, [task[t] EXCEPT !.pc = "move_ai"])
          ELSE Done(t, task[t], Result("Ok", "None", << >>))
    /\ UNCHANGED << next_id, now, config, others >>

\* line 145: the adapter answers and process_ai_move works on the copy
MoveAi(t) ==
    /\ task[t].pc = "move_ai"
    /\ \E ai_result \in AdapterResults(config.ai_service, config.lines,
                                       task[t].copy[1].game_state,
                                       task[t].copy[1].ai_difficulty) :
       LET out == process_ai_move(task[t].copy[1], ai_result, now) IN
       Goto(t, [task[t] EXCEPT !.pc = "move_finish",
                               !.copy = << out.session >>,
                               !.pending = out.result])
    /\ UNCHANGED << sessions, next_id, now, config, others >>

\* A faulty final store that leaves the thinking flag set.
MoveFinishFlagKept(t) ==
    /\ task[t].pc = "move_finish"
    /\ LET upd == update_session(sessions,
                                 [task[t].copy[1] EXCEPT !.ai_thinking = TRUE]) IN
       /\ sessions' = upd.map
       /\ IF ~upd.ok
          THEN Done(t, task[t], Result("GameNotFound", "None", << >>))
          ELSE Done(t, task[t], task[t].pending)
    /\ UNCHANGED << next_id, now, config, others >>

\* lines 148, 160: update_session with the flag cleared, then the response
MoveFinish(t) ==
    /\ task[t].pc = "move_finish"
    /\ LET upd == update_session(sessions, task[t].copy[1]) IN
       /\ sessions' = upd.map
       /\ IF ~upd.ok
          THEN Done(t, task[t], Result("GameNotFound", "None", << >>))
          ELSE Done(t, task[t], task[t].pending)
    /\ UNCHANGED << next_id, now, config, others >>

(***************************************************************************)
(* change_difficulty, delete_session                                       *)
(***************************************************************************)
\* line 227 get_session, then lines 229-235 on the copy
ChangeGet(t, id, new_difficulty) ==
    /\ Idle(t)
    /\ LET frame == [IdleFrame EXCEPT !.op = "change", !.id = id,
                                      !.difficulty = new_difficulty] IN
       IF ~session_exists(sessions, id)
       THEN Done(t, frame, Result("GameNotFound", "None", << >>))
       ELSE LET local == change_difficulty_local(sessions[id], new_difficulty)
                frame2 == [frame EXCEPT !.base =
                              LogPositions(sessions[id].game_state.move_history)]
            IN IF local.next = "reject"
               THEN Done(t, frame2, Result("AiThinkingError", "AiBusy", << >>))
               ELSE Goto(t, [frame2 EXCEPT !.pc = "change_store",
                                           !.copy = << local.session >>])
    /\ UNCHANGED << sessions, next_id, now, config, others >>

\* line 236: update_session
ChangeStore(t) ==
    /\ task[t].pc = "change_store"
    /\ LET upd == update_session(sessions, task[t].copy[1]) IN
       /\ sessions' = upd.map
       /\ IF ~upd.ok
          THEN Done(t, task[t], Result("GameNotFound", "None", << >>))
          ELSE Done(t, task[t], Result("Ok", "None", << >>))
    /\ UNCHANGED << next_id, now, config, others >>

\* delete_session / remove_session: one DashMap::remove
Remove(t, id) ==
    /\ Idle(t)
    /\ LET frame == [IdleFrame EXCEPT !.op = "remove", !.id = id] IN
       IF session_exists(sessions, id)
       THEN /\ sessions' = map_remove(sessions, id)
            /\ Done(t, frame, Result("Ok", "None", << >>))
       ELSE /\ sessions' = sessions
            /\ Done(t, frame, Result("GameNotFound", "None", << >>))
    /\ UNCHANGED << next_id, now, config, others >>

\* get_game_state / get_session: one DashMap::get, the copy is returned
GetSession(t, id) ==
    /\ Idle(t)
    /\ LET frame == [IdleFrame EXCEPT !.op = "get", !.id = id] IN
       IF session_exists(sessions, id)
       THEN Done(t, [frame EXCEPT !.base =
                        LogPositions(sessions[id].game_state.move_history)],
                 Result("Ok", "None", << >>))
       ELSE Done(t, frame, Result("GameNotFound", "None", << >>))
    /\ UNCHANGED << sessions, next_id, now, config, others >>

\* set_ai_thinking: one DashMap::get_mut
SetAiThinking(t, id, thinking) ==
    /\ Idle(t)
    /\ LET frame == [IdleFrame EXCEPT !.op = "set_thinking", !.id = id] IN
       IF session_exists(sessions, id)
       THEN /\ sessions' = [sessions EXCEPT ![id].ai_thinking = thinking]
            /\ Done(t, frame, Result("Ok", "None", << >>))
       ELSE /\ sessions' = sessions
            /\ Done(t, frame, Result("GameNotFound", "None", << >>))
    /\ UNCHANGED << next_id, now, config, others >>

\* is_ai_thinking: one DashMap::get, the flag is returned
IsAiThinking(t, id) ==
    /\ Idle(t)
    /\ LET frame == [IdleFrame EXCEPT !.op = "is_thinking", !.id = id] IN
       IF session_exists(sessions, id)
       THEN Done(t, frame,
                 Result("Ok", IF sessions[id].ai_thinking THEN "Thinking"
                              ELSE "NotThinking", << >>))
       ELSE Done(t, frame, Result("GameNotFound", "None", << >>))
    /\ UNCHANGED << sessions, next_id, now, config, others >>

\* AiBattleService::set_ai_service(&mut self): the adapter is replaced.  The
\* exclusive borrow rules out a call of the service in flight.
SetAiService(t, service) ==
    /\ Idle(t)
    /\ \A u \in Tasks : task[u].pc = "idle"
    /\ config' = [config EXCEPT !.ai_service = service]
    /\ Done(t, [IdleFrame EXCEPT !.op = "set_ai_service"],
            Result("Ok", "None", << >>))
    /\ UNCHANGED << sessions, next_id, now, others >>

(***************************************************************************)
(* cleanup_inactive_sessions and the clock                                 *)
(***************************************************************************)
\* The scan of lines 98-102 iterates over the DashMap shard by shard and
\* holds the lock of one shard at a time.  An entry that is in the map from
\* the start of the scan to its end is yielded once; one removed before the
\* iterator reaches it is not yielded; one inserted during the scan is
\* yielded if its shard is still ahead.  The order is the map's (shard,
\* then hash of a random Uuid): any order.  Other requests run between two
\* entries.
\*
\* lines 95-98: the cutoff, and the iterator is created
SweepScan(t) ==
    /\ Idle(t)
    /\ Goto(t, [IdleFrame EXCEPT
                   !.pc = "sweep_scan", !.op = "sweep",
                   !.cutoff_time = now - config.session_timeout_minutes,
                   !.present = DOMAIN sessions])
    /\ UNCHANGED << sessions, next_id, now, config, others >>

\* lines 99-101: the iterator yields the entry of `id`, the filter reads its
\* last_move_at and the key is collected if it is older than the cutoff
SweepVisit(t, id) ==
    /\ task[t].pc = "sweep_scan"
    /\ session_exists(sessions, id)
    /\ id \notin task[t].visited
    /\ Goto(t, [task[t] EXCEPT
                   !.visited = @ \cup {id},
                   !.expired = IF is_expired(sessions[id], task[t].cutoff_time)
                               THEN Append(@, id) ELSE @])
    /\ UNCHANGED << sessions, next_id, now, config, others >>

\* line 102: the iterator is exhausted; every entry that has been in the
\* map since the scan began has been yielded
SweepCollect(t) ==
    /\ task[t].pc = "sweep_scan"
    /\ (task[t].present \cap DOMAIN sessions) \subseteq task[t].visited
    /\ Goto(t, [task[t] EXCEPT !.pc = "sweep_remove", !.present = {},
                               !.visited = {}])
    /\ UNCHANGED << sessions, next_id, now, config, others >>

\* lines 104-108: one iteration of the removal loop
SweepRemove(t) ==
    /\ task[t].pc = "sweep_remove"
    /\ task[t].expired # << >>
    /\ LET id == Head(task[t].expired) IN
       /\ sessions' = IF session_exists(sessions, id)
                      THEN map_remove(sessions, id) ELSE sessions
       /\ Goto(t, [task[t] EXCEPT
              !.expired = Tail(task[t].expired),
              !.removed_count =
                  IF session_exists(sessions, id) THEN @ + 1 ELSE @])
    /\ UNCHANGED << next_id, now, config, others >>

\* line 110: return removed_count
SweepReturn(t) ==
    /\ task[t].pc = "sweep_remove"
    /\ task[t].expired = << >>
    /\ Done(t, task[t], Result("Ok", "None", << >>))
    /\ UNCHANGED << sessions, next_id, now, config, others >>

Tick ==
    /\ now < MaxTime
    /\ now' = now + 1
    /\ response' = NoResponse
    /\ UNCHANGED << sessions, next_id, task, config, others >>

Ids == 1..config.max_ids

(***************************************************************************)
(* api/handlers.rs: the plain game handlers.  Each holds the write lock of  *)
(* AppState.games from its lookup to its return: one step.                 *)
(***************************************************************************)
GameLog(id) == IF id \in DOMAIN games THEN games[id].move_history ELSE << >>

\* Position::new of the request body
position_new(payload) == payload.row < BOARD_SIZE /\ payload.col < BOARD_SIZE

\* create_game: GameState::new() inserted under its fresh id.  The guard on
\* max_ids bounds the model.
CreateGame ==
    /\ next_id <= config.max_ids
    /\ games' = map_insert(games, next_id, GameStateNew)
    /\ next_id' = next_id + 1
    /\ call' = Call("create_game", next_id, NoPosition, "None", "Ok", "None",
                    << >>, FALSE)
    /\ UNCHANGED << sessions, now, task, response, config, policy >>

\* A faulty make_move that does not call switch_player.
make_move_unswitched(gs, position) ==
    LET applied == apply_move(gs, position) IN
    IF applied.ok
    THEN [ok |-> TRUE, err |-> "None", flipped |-> applied.flipped,
          state |-> handle_turn(applied.state).state]
    ELSE [ok |-> FALSE, err |-> applied.err, flipped |-> << >>, state |-> gs]

\* make_move on the stored game: apply_move, switch_player, handle_turn
make_move(gs, position) ==
    LET applied == apply_move(gs, position) IN
    IF applied.ok
    THEN [ok |-> TRUE, err |-> "None", flipped |-> applied.flipped,
          state |-> handle_turn(switch_player(applied.state)).state]
    ELSE [ok |-> FALSE, err |-> applied.err, flipped |-> << >>, state |-> gs]

MakeMoveOn(id, payload) ==
    IF ~position_new(payload)
    THEN /\ games' = games
         /\ call' = Call("make_move", id, payload, "None", "BadRequest",
                         "InvalidPosition", << >>, FALSE)
    ELSE IF id \notin DOMAIN games
    THEN /\ games' = games
         /\ call' = Call("make_move", id, payload, "None", "NotFound", "None",
                         << >>, FALSE)
    ELSE LET moved == make_move(games[id], payload) IN
         /\ games' = [games EXCEPT ![id] = moved.state]
         /\ call' = Call("make_move", id, payload, "None",
                         IF moved.ok THEN "Ok" ELSE "BadRequest",
                         moved.err, moved.flipped, FALSE)

MakeMove(id) ==
    /\ \E payload \in LineInputs(config.lines, Len(GameLog(id))) \cup {OutOfBounds} :
           MakeMoveOn(id, payload)
    /\ UNCHANGED << sessions, next_id, now, task, response, config, policy >>

\* delete_game
DeleteGame(id) ==
    /\ games' = IF id \in DOMAIN games THEN map_remove(games, id) ELSE games
    /\ call' = Call("delete_game", id, NoPosition, "None",
                    IF id \in DOMAIN games THEN "Ok" ELSE "NotFound", "None",
                    << >>, FALSE)
    /\ UNCHANGED << sessions, next_id, now, task, response, config, policy >>

(***************************************************************************)
(* game/state.rs, game/rules.rs: the operations a caller of the library    *)
(* makes on a GameState it holds (here: the one stored under `id`).        *)
(***************************************************************************)
\* The call `op` turned the game state into `state` and returned.
Called(id, state, returned) ==
    /\ id \in DOMAIN games
    /\ games' = [games EXCEPT ![id] = state]
    /\ call' = returned
    /\ UNCHANGED << sessions, next_id, now, task, response, config, policy >>

ApplyMove(id, position) ==
    /\ id \in DOMAIN games
    /\ LET applied == apply_move(games[id], position) IN
       Called(id, applied.state,
              Call("apply_move", id, position, "None",
                   IF applied.ok THEN "Ok" ELSE "Err", applied.err,
                   applied.flipped, FALSE))

SwitchPlayer(id) ==
    /\ id \in DOMAIN games
    /\ Called(id, switch_player(games[id]),
              Call("switch_player", id, NoPosition, "None", "Ok", "None", << >>, FALSE))

HandleTurn(id) ==
    /\ id \in DOMAIN games
    /\ LET turned == handle_turn(games[id]) IN
       Called(id, turned.state,
              Call("handle_turn", id, NoPosition, "None", "Ok", "None", << >>,
                   turned.changed))

Pause(id) ==
    /\ id \in DOMAIN games
    /\ Called(id, pause(games[id]),
              Call("pause", id, NoPosition, "None", "Ok", "None", << >>, FALSE))

Resume(id) ==
    /\ id \in DOMAIN games
    /\ Called(id, resume(games[id]),
              Call("resume", id, NoPosition, "None", "Ok", "None", << >>, FALSE))

Finish(id, winner) ==
    /\ id \in DOMAIN games
    /\ Called(id, finish(games[id], winner),
              Call("finish", id, NoPosition, winner, "Ok", "None", << >>, FALSE))

(***************************************************************************)
(* ai/strategies.rs, ai/local_service.rs, ai/mock_service.rs: a call of    *)
(* calculate_move on the game state stored under `id`.  The caller lends   *)
(* the state to the call, so no other call is made on it until it returns. *)
(***************************************************************************)
\* What a calculate_move call returned, and whether it slept on the way.
Calculated(service, id, difficulty, result, slept) ==
    Call("calculate_move", id, result.position, "None",
         IF result.ok THEN "Ok" ELSE "Err", result.err, << >>, FALSE)
    @@ [service |-> service, difficulty |-> difficulty, slept |-> slept]

\* The call up to its sleep, or to its return when it does not sleep.
CalculateStart(t, id, service, difficulty) ==
    /\ Idle(t)
    /\ id \in DOMAIN games
    /\ IF calculate_move_sleeps(service, games[id], difficulty)
       THEN /\ task' = [task EXCEPT ![t] =
                           [IdleFrame EXCEPT !.pc = "calculate_sleep",
                                             !.op = "calculate_move",
                                             !.id = id,
                                             !.difficulty = difficulty,
                                             !.next = service]]
            /\ call' = NoCall
       ELSE /\ task' = task
            /\ call' = Calculated(service, id, difficulty,
                                  calculate_move(service, games[id], difficulty),
                                  FALSE)
    /\ UNCHANGED << sessions, next_id, now, response, config, games, policy >>

\* The sleep ends and the call returns.
CalculateWake(t) ==
    /\ task[t].pc = "calculate_sleep"
    /\ task' = [task EXCEPT ![t] = IdleFrame]
    /\ call' = Calculated(task[t].next, task[t].id, task[t].difficulty,
                          calculate_move(task[t].next, games[task[t].id],
                                         task[t].difficulty),
                          TRUE)
    /\ UNCHANGED << sessions, next_id, now, response, config, games, policy >>

\* No calculate_move call is in flight.
NotLent == \A t \in Tasks : task[t].pc # "calculate_sleep"

(***************************************************************************)
(* api/ai_battle/config_service.rs: calculate_move_with_fallback.  Its     *)
(* suspension points are the two adapter calls and the sleep.              *)
(***************************************************************************)
\* The game states the policy is called with: the opening position, and the
\* position after Black's first move of AltLine, White to move.
PolicyGames ==
    {GameStateNew, switch_player(apply_move(GameStateNew, AltLine[1]).state)}

PolicyReturn(frame, outcome) ==
    policy' = [frame EXCEPT !.pc = "idle", !.outcome = outcome]

\* lines 150-151
PolicyStart(gs, difficulty) ==
    /\ policy.pc = "idle"
    /\ policy' = [PolicyIdle(policy.cfg) EXCEPT
                      !.pc = "primary", !.game_state = gs,
                      !.difficulty = difficulty]
    /\ response' = NoResponse
    /\ UNCHANGED << sessions, next_id, now, task, config, games, call >>

\* A faulty policy that compares `attempts <= max_attempts`: one attempt
\* too many.
PolicyPrimaryOneMore ==
    /\ policy.pc = "primary"
    /\ \E ai_result \in AdapterResults(config.ai_service, config.lines,
                                       policy.game_state, policy.difficulty) :
       LET attempts == policy.attempts + 1
           frame == [policy EXCEPT !.attempts = attempts,
                                   !.primary_calls = @ + 1]
       IN IF ai_result.ok
          THEN PolicyReturn(frame, [status |-> "Ok",
                                    position |-> ai_result.position,
                                    attempts |-> attempts, error |-> "None"])
          ELSE IF policy.cfg.enable_fallback
                  /\ attempts <= policy.cfg.max_retry_attempts
          THEN policy' = [frame EXCEPT
                             !.e = ai_result.err,
                             !.pc = IF policy.cfg.fallback_ai_service # "None"
                                    THEN "fallback" ELSE "sleep"]
          ELSE PolicyReturn([frame EXCEPT !.e = ai_result.err],
                            [status |-> "AiThinkingError",
                             position |-> NoPosition,
                             attempts |-> attempts, error |-> ai_result.err])
    /\ UNCHANGED << sessions, next_id, now, task, response, config, games, call >>

\* A faulty policy that compares `attempts != max_attempts`: with a maximum
\* of 0 it never gives up.
PolicyPrimaryUnbounded ==
    /\ policy.pc = "primary"
    /\ \E ai_result \in AdapterResults(config.ai_service, config.lines,
                                       policy.game_state, policy.difficulty) :
       LET attempts == policy.attempts + 1
           frame == [policy EXCEPT !.attempts = attempts,
                                   !.primary_calls = @ + 1]
       IN IF ai_result.ok
          THEN PolicyReturn(frame, [status |-> "Ok",
                                    position |-> ai_result.position,
                                    attempts |-> attempts, error |-> "None"])
          ELSE IF policy.cfg.enable_fallback
                  /\ attempts # policy.cfg.max_retry_attempts
          THEN policy' = [frame EXCEPT
                             !.e = ai_result.err,
                             !.pc = IF policy.cfg.fallback_ai_service # "None"
                                    THEN "fallback" ELSE "sleep"]
          ELSE PolicyReturn([frame EXCEPT !.e = ai_result.err],
                            [status |-> "AiThinkingError",
                             position |-> NoPosition,
                             attempts |-> attempts, error |-> ai_result.err])
    /\ UNCHANGED << sessions, next_id, now, task, response, config, games, call >>

\* lines 154-183 without the fallback call: the attempt on the primary
PolicyPrimary ==
    /\ policy.pc = "primary"
    /\ \E ai_result \in AdapterResults(config.ai_service, config.lines,
                                       policy.game_state, policy.difficulty) :
       LET attempts == policy.attempts + 1
           frame == [policy EXCEPT !.attempts = attempts,
                                   !.primary_calls = @ + 1]
       IN IF ai_result.ok
          THEN PolicyReturn(frame, [status |-> "Ok",
                                    position |-> ai_result.position,
                                    attempts |-> attempts, error |-> "None"])
          ELSE IF policy.cfg.enable_fallback
                  /\ attempts < policy.cfg.max_retry_attempts
          THEN policy' = [frame EXCEPT
                             !.e = ai_result.err,
                             !.pc = IF policy.cfg.fallback_ai_service # "None"
                                    THEN "fallback" ELSE "sleep"]
          ELSE PolicyReturn([frame EXCEPT !.e = ai_result.err],
                            [status |-> "AiThinkingError",
                             position |-> NoPosition,
                             attempts |-> attempts, error |-> ai_result.err])
    /\ UNCHANGED << sessions, next_id, now, task, response, config, games, call >>

\* A faulty attempt on the secondary whose success is not returned: the
\* delay and the next attempt on the primary follow in every case.
PolicyFallbackDiscarded ==
    /\ policy.pc = "fallback"
    /\ \E ai_result \in AdapterResults(policy.cfg.fallback_ai_service, config.lines,
                                       policy.game_state, policy.difficulty) :
       policy' = [policy EXCEPT !.fallback_calls = @ + 1, !.pc = "sleep"]
    /\ UNCHANGED << sessions, next_id, now, task, response, config, games, call >>

\* lines 164-173: the attempt on the secondary
PolicyFallback ==
    /\ policy.pc = "fallback"
    /\ \E ai_result \in AdapterResults(policy.cfg.fallback_ai_service, config.lines,
                                       policy.game_state, policy.difficulty) :
       LET frame == [policy EXCEPT !.fallback_calls = @ + 1] IN
       IF ai_result.ok
       THEN PolicyReturn(frame, [status |-> "Ok",
                                 position |-> ai_result.position,
                                 attempts |-> policy.attempts, error |-> "None"])
       ELSE policy' = [frame EXCEPT !.pc = "sleep"]
    /\ UNCHANGED << sessions, next_id, now, task, response, config, games, call >>

\* lines 176-178: the delay before the next attempt on the primary
PolicySleep ==
    /\ policy.pc = "sleep"
    /\ policy' = [policy EXCEPT !.pc = "primary"]
    /\ UNCHANGED << sessions, next_id, now, task, response, config, games, call >>

\* ai/service.rs: enum AIServiceType
AIServiceType == {"Local", "Http", "Mock"}

\* AIServiceFactory::create_service: the built-in adapter, the default mock,
\* or no adapter (ServiceUnavailable) for Http, which is not implemented.
create_service(service_type) ==
    IF service_type = "Http" THEN "None" ELSE service_type

\* AIService::is_available of an adapter of the factory: LocalAIService
\* answers true, the default mock its `available`, which is true.
is_available(service) == service \in {"Local", "Mock"}

\* What a call that replaces the configuration answers.
Reconfigured(op, status) ==
    [NoResponse EXCEPT !.op = op, !.result = Result(status, "None", << >>)]

\* lines 121-139 on `service_type`: the adapter is created and asked whether
\* it is available; if so it becomes the primary.  The status returned and
\* the primary adapter after the call.
switch_ai_service(primary, service_type) ==
    LET new_ai_service == create_service(service_type) IN
    IF new_ai_service = "None" \/ ~is_available(new_ai_service)
    THEN [status |-> "AiThinkingError", primary |-> primary]
    ELSE [status |-> "Ok", primary |-> new_ai_service]

\* ConfigurableAiBattleService::switch_ai_service(&mut self): no call of
\* calculate_move_with_fallback is in flight.
SwitchAiService(service_type) ==
    /\ policy.pc = "idle"
    /\ LET out == switch_ai_service(config.ai_service, service_type) IN
       /\ config' = [config EXCEPT !.ai_service = out.primary]
       /\ response' = Reconfigured("switch_ai_service", out.status)
    /\ policy' = PolicyIdle(policy.cfg)
    /\ UNCHANGED << sessions, next_id, now, task, games, call >>

\* reload_config(&mut self), lines 207-213: fallback_config is replaced, then
\* the primary is switched.  The secondary adapter is the one `new` created;
\* a failed switch leaves the new fallback_config in place.
ReloadConfig(enable_fallback, max_retry_attempts, service_type) ==
    /\ policy.pc = "idle"
    /\ LET out == switch_ai_service(config.ai_service, service_type) IN
       /\ config' = [config EXCEPT !.ai_service = out.primary]
       /\ response' = Reconfigured("reload_config", out.status)
    /\ policy' = PolicyIdle(FallbackConfig(enable_fallback, max_retry_attempts,
                                           policy.cfg.fallback_ai_service))
    /\ UNCHANGED << sessions, next_id, now, task, games, call >>

(***************************************************************************)
(* Specifications                                                          *)
(***************************************************************************)
ConfigSet(ceilings, adapters, tasks, ids, plies, names) ==
    [max_sessions : ceilings, session_timeout_minutes : {0},
     ai_service : adapters, adapters : {adapters}, tasks : {tasks},
     max_ids : {ids}, max_plies : {plies}, lines : {names}]

\* The orchestrator: the first exchanges of one session, two requests at a
\* time, the built-in adapter and a scripted one, either of which
\* set_ai_service may put in the place of the other.
Init ==
    InitState(ConfigSet({1}, {"Local", "Scripted"}, NumTasks, BattleIds,
                        BattlePlies, {"Over", "Alt", "Early"}))

Next ==
    \/ \E t \in Tasks, d \in DifficultyInputs : CreateCheck(t, d)
    \/ \E t \in Tasks, id \in Ids : CreateLen(t, id)
    \/ \E t \in Tasks : CreateCeiling(t)
    \/ \E t \in Tasks : CreateNew(t)
    \/ \E t \in Tasks : CreateInsert(t)
    \/ \E t \in Tasks : CreateGet(t)
    \/ \E t \in Tasks, id \in Ids : MoveBegin(t, id)
    \/ \E t \in Tasks : MoveStore(t)
    \/ \E t \in Tasks : MoveAi(t)
    \/ \E t \in Tasks : MoveFinish(t)
    \/ \E t \in Tasks, id \in Ids, d \in DifficultyInputs : ChangeGet(t, id, d)
    \/ \E t \in Tasks : ChangeStore(t)
    \/ \E t \in Tasks, id \in Ids : Remove(t, id)
    \/ \E t \in Tasks, service \in config.adapters : SetAiService(t, service)

Spec == Init /\ [][Next]_vars

\* The orchestrator, one request at a time: one session played to the end
\* of a game, to a position where White must pass, to one where Black must.
InitGame ==
    InitState(ConfigSet({1}, {"Scripted"}, SequentialTasks, BattleIds, GamePlies,
                        {"Over", "WhitePass", "BlackPass"}))

SpecGame == InitGame /\ [][Next]_vars

\* The orchestrator, two requests at a time, around the end of a game.
InitEndgame ==
    InitState(ConfigSet({1}, {"Scripted"}, NumTasks, BattleIds, EndgamePlies,
                        {"Over"}))

SpecEndgame == InitEndgame /\ [][Next]_vars

\* The orchestrator, one request at a time: one session played to the end
\* of a game that the human's move ends and of one that the reply ends.
InitFinal ==
    InitState(ConfigSet({1}, {"Scripted"}, SequentialTasks, BattleIds, FinalPlies,
                        {"Over", "WhiteOver"}))

SpecFinal == InitFinal /\ [][Next]_vars

\* The orchestrator, one request at a time, with a deterministic adapter
\* (the mock with a fixed move, the default mock, the built-in adapter) that
\* set_ai_service may replace by another of them: two sessions created and
\* played for two exchanges.
InitReplay ==
    InitState(ConfigSet({ReplayCeiling}, {"Fixed", "Mock", "Local"},
                        SequentialTasks, ReplayIds, ReplayPlies, {"Alt", "Over"}))

NextReplay ==
    \/ \E t \in Tasks, d \in DifficultyInputs : CreateCheck(t, d)
    \/ \E t \in Tasks, id \in Ids : CreateLen(t, id)
    \/ \E t \in Tasks : CreateCeiling(t)
    \/ \E t \in Tasks : CreateNew(t)
    \/ \E t \in Tasks : CreateInsert(t)
    \/ \E t \in Tasks : CreateGet(t)
    \/ \E t \in Tasks, id \in Ids : MoveBegin(t, id)
    \/ \E t \in Tasks : MoveStore(t)
    \/ \E t \in Tasks : MoveAi(t)
    \/ \E t \in Tasks : MoveFinish(t)
    \/ \E t \in Tasks, service \in config.adapters : SetAiService(t, service)

SpecReplay == InitReplay /\ [][NextReplay]_vars

\* The orchestrator, one request at a time, on one session played to the
\* end of a game, together with the registry's set_ai_thinking.
InitMirror ==
    InitState(ConfigSet({1}, {"Scripted"}, SequentialTasks, BattleIds,
                        EndgamePlies, {"Over"}))

NextMirror ==
    \/ Next
    \/ \E t \in Tasks, id \in Ids, thinking \in BOOLEAN :
           SetAiThinking(t, id, thinking)

SpecMirror == InitMirror /\ [][NextMirror]_vars

\* The orchestrator together with the registry's set_ai_thinking, two
\* requests at a time: one session played to the end of a game that the
\* human's ninth move ends and then asked for a tenth move, with a scripted
\* adapter that may fail or answer illegally.
InitMoves ==
    InitState(ConfigSet({1}, {"Scripted"}, NumTasks, BattleIds, MovesPlies,
                        {"Over", "Early"}))

SpecMoves == InitMoves /\ [][NextMirror]_vars

\* The registry: creation against the ceiling (with the read-back of
\* create_ai_battle), removal, the sweep, the clock.
InitRegistry ==
    InitState(ConfigSet({RegistryCeiling}, {"Mock"}, NumTasks, RegistryIds,
                        0, {"Alt"}))

NextRegistry ==
    \/ \E t \in Tasks, d \in DifficultyInputs : CreateCheck(t, d)
    \/ \E t \in Tasks, id \in Ids : CreateLen(t, id)
    \/ \E t \in Tasks : CreateCeiling(t)
    \/ \E t \in Tasks : CreateNew(t)
    \/ \E t \in Tasks : CreateInsert(t)
    \/ \E t \in Tasks : CreateGet(t)
    \/ \E t \in Tasks, id \in Ids : Remove(t, id)
    \/ \E t \in Tasks : SweepScan(t)
    \/ \E t \in Tasks, id \in Ids : SweepVisit(t, id)
    \/ \E t \in Tasks : SweepCollect(t)
    \/ \E t \in Tasks : SweepRemove(t)
    \/ \E t \in Tasks : SweepReturn(t)
    \/ Tick

SpecRegistry == InitRegistry /\ [][NextRegistry]_vars

\* The registry, one request at a time.
InitAdmission ==
    InitState(ConfigSet({RegistryCeiling}, {"Mock"}, SequentialTasks,
                        RegistryIds, 0, {"Alt"}))

SpecAdmission == InitAdmission /\ [][NextRegistry]_vars

\* The orchestrator with a scripted adapter, under the scheduling the
\* runtime gives: every spawned task is polled until it completes, and the
\* adapter call of MoveAi returns.
InitFair ==
    InitState(ConfigSet({1}, {"Scripted"}, NumTasks, BattleIds, BattlePlies,
                        {"Over", "Alt", "Early"}))

SpecFair ==
    /\ InitFair
    /\ [][Next]_vars
    /\ \A t \in Tasks : WF_vars(MoveAi(t)) /\ WF_vars(MoveFinish(t))

\* The library: one game state under any sequence of apply_move,
\* switch_player, handle_turn, pause, resume and finish calls, the positions
\* taken from three lines (a wipe-out, a pass of White, a pass of Black).
InitRules ==
    InitState(ConfigSet({1}, {"Mock"}, SequentialTasks, RulesIds, 0,
                        {"Over", "WhitePassOn", "BlackPassOn"}))

NextRules ==
    \/ CreateGame
    \/ \E id \in Ids : \E position \in LineInputs(config.lines, Len(GameLog(id))) :
           ApplyMove(id, position)
    \/ \E id \in Ids : SwitchPlayer(id)
    \/ \E id \in Ids : HandleTurn(id)
    \/ \E id \in Ids : Pause(id)
    \/ \E id \in Ids : Resume(id)
    \/ \E id \in Ids, winner \in Player \cup {"None"} : Finish(id, winner)

SpecRules == InitRules /\ [][NextRules]_vars

\* The plain game handlers: games created, played along the lines, deleted.
InitPlain ==
    InitState(ConfigSet({1}, {"Mock"}, SequentialTasks, PlainIds, 0,
                        {"Over", "WhitePassOn", "BlackPassOn"}))

NextPlain ==
    \/ CreateGame
    \/ \E id \in Ids : MakeMove(id)
    \/ \E id \in Ids : DeleteGame(id)

SpecPlain == InitPlain /\ [][NextPlain]_vars

\* ConfigurableAiBattleService::new, lines 57-74 and 87: the fallback
\* configuration of the Config, with a secondary adapter only if fallback is
\* enabled, and none if it could not be created.  Each kind of secondary.
FallbackConfigs ==
    {FallbackConfig(enable, n, secondary) :
        enable \in BOOLEAN, n \in 0..MaxAttempts,
        secondary \in {"None", "Local", "Mock", "Failing", "Fixed", "Unreliable"}}
    \ {FallbackConfig(FALSE, n, secondary) :
           n \in 0..MaxAttempts,
           secondary \in {"Local", "Mock", "Failing", "Fixed", "Unreliable"}}

InitPolicy ==
    /\ sessions = << >>
    /\ next_id = 1
    /\ now = 0
    /\ task = [t \in Tasks |-> IdleFrame]
    /\ response = NoResponse
    /\ config \in ConfigSet({1}, {"Local", "Failing", "Unreliable"},
                             SequentialTasks, BattleIds, 0, {"Alt"})
    /\ games = << >>
    /\ call = NoCall
    /\ policy \in {PolicyIdle(c) : c \in FallbackConfigs}

NextPolicy ==
    \/ \E gs \in PolicyGames, d \in DifficultyInputs : PolicyStart(gs, d)
    \/ PolicyPrimary
    \/ PolicyFallback
    \/ PolicySleep
    \/ \E service_type \in AIServiceType : SwitchAiService(service_type)
    \/ \E enable \in BOOLEAN, n \in 0..MaxAttempts, service_type \in AIServiceType :
           ReloadConfig(enable, n, service_type)

\* Every adapter call returns and every sleep ends.
SpecPolicy ==
    /\ InitPolicy
    /\ [][NextPolicy]_vars
    /\ WF_vars(PolicyPrimary) /\ WF_vars(PolicyFallback) /\ WF_vars(PolicySleep)

\* The orchestrator of a ConfigurableAiBattleService with fallback enabled:
\* the primary is the built-in adapter (which fails on every difficulty but
\* Easy) or a mock that always fails, the secondary a mock that answers
\* with the first legal move or with its fixed move.
InitFallback ==
    /\ sessions = << >>
    /\ next_id = 1
    /\ now = 0
    /\ task = [t \in Tasks |-> IdleFrame]
    /\ response = NoResponse
    /\ config \in ConfigSet({1}, {"Local", "Failing"}, NumTasks, BattleIds,
                             BattlePlies, {"Over", "Alt", "Early"})
    /\ games = << >>
    /\ call = NoCall
    /\ policy \in {PolicyIdle(FallbackConfig(TRUE, MaxAttempts, secondary)) :
                       secondary \in {"Mock", "Fixed"}}

SpecFallback == InitFallback /\ [][Next]_vars

\* The library on the opening position: one game state, the first moves
\* (2,3) and (2,6), the reply (2,2), the occupied cell.
InitOpening ==
    InitState(ConfigSet({1}, {"Mock"}, SequentialTasks, RulesIds, 0,
                        {"Alt", "Early"}))

SpecOpening == InitOpening /\ [][NextRules]_vars

\* The registry under play: sessions created, played for one exchange,
\* read, flagged, changed, removed and swept while the clock advances, two
\* requests at a time.
InitSession ==
    InitState(ConfigSet({SessionCeiling}, {"Mock"}, NumTasks, SessionIds,
                        SessionPlies, {"Alt"}))

NextSession ==
    \/ \E t \in Tasks : CreateCheck(t, "Easy")
    \/ \E t \in Tasks, id \in Ids : CreateLen(t, id)
    \/ \E t \in Tasks : CreateCeiling(t)
    \/ \E t \in Tasks : CreateNew(t)
    \/ \E t \in Tasks : CreateInsert(t)
    \/ \E t \in Tasks : CreateGet(t)
    \/ \E t \in Tasks, id \in Ids : MoveBegin(t, id)
    \/ \E t \in Tasks : MoveStore(t)
    \/ \E t \in Tasks : MoveAi(t)
    \/ \E t \in Tasks : MoveFinish(t)
    \/ \E t \in Tasks, id \in Ids : ChangeGet(t, id, "Hard")
    \/ \E t \in Tasks : ChangeStore(t)
    \/ \E t \in Tasks, id \in Ids : Remove(t, id)
    \/ \E t \in Tasks, id \in Ids : GetSession(t, id)
    \/ \E t \in Tasks, id \in Ids, thinking \in BOOLEAN :
           SetAiThinking(t, id, thinking)
    \/ \E t \in Tasks, id \in Ids : IsAiThinking(t, id)
    \/ \E t \in Tasks, service \in config.adapters : SetAiService(t, service)
    \/ \E t \in Tasks : SweepScan(t)
    \/ \E t \in Tasks, id \in Ids : SweepVisit(t, id)
    \/ \E t \in Tasks : SweepCollect(t)
    \/ \E t \in Tasks : SweepRemove(t)
    \/ \E t \in Tasks : SweepReturn(t)
    \/ Tick

SpecSession == InitSession /\ [][NextSession]_vars

\* The strategies and adapters asked for a move on one game state: the
\* opening, the boards of a line that ends in a wipe-out, boards reached by
\* moving out of turn, paused and finished states.
InitStrategy ==
    InitState(ConfigSet({1}, {"Local"}, SequentialTasks, RulesIds, 0, {"Over"}))

NextStrategy ==
    \/ NotLent /\ CreateGame
    \/ NotLent /\ \E id \in Ids :
           \E position \in LineInputs(config.lines, Len(GameLog(id))) :
               ApplyMove(id, position)
    \/ NotLent /\ \E id \in Ids : SwitchPlayer(id)
    \/ NotLent /\ \E id \in Ids : HandleTurn(id)
    \/ NotLent /\ \E id \in Ids : Pause(id)
    \/ NotLent /\ \E id \in Ids : Finish(id, determine_winner(games[id].board))
    \/ \E t \in Tasks, id \in Ids, service \in AdapterKinds, d \in AiDifficulty :
           CalculateStart(t, id, service, d)
    \/ \E t \in Tasks : CalculateWake(t)

SpecStrategy == InitStrategy /\ [][NextStrategy]_vars

(***************************************************************************)
(* Properties                                                              *)
(***************************************************************************)
Live(id) == session_exists(sessions, id)

\* Task t runs a make_player_move whose checks passed on the copy it read.
Accepted(t) ==
    /\ task[t].op = "move"
    /\ task[t].pc \in {"move_store", "move_ai", "move_finish"}

\* This step is the read of a make_player_move of task t.
MoveBegins(t) ==
    /\ task[t].pc = "idle"
    /\ \/ task'[t].op = "move"
       \/ response'.op = "move" /\ response'.task = t

\* The session and the position that call names.
MoveCall(t) ==
    IF task'[t].op = "move"
    THEN [id |-> task'[t].id, position |-> task'[t].position]
    ELSE [id |-> response'.id, position |-> response'.position]

\* This step is the last of a make_player_move of task t that was applied.
MoveReturns(t) == Accepted(t) /\ task'[t].pc = "idle"

\* The position is a legal placement for `player`, from the rules alone:
\* an empty cell from which at least one run of opponent stones is bracketed.
Bracketing(board, position, player) ==
    /\ board[CellIndex(position)] = "Empty"
    /\ get_flipped_positions(board, position, player) # << >>

\* The session stored in `map` is on the human's turn and the position is
\* legal on it.
LegalOn(map, id, position) ==
    /\ session_exists(map, id)
    /\ ~is_finished(map[id])
    /\ map[id].current_player = "Black"
    /\ ~map[id].ai_thinking
    /\ Bracketing(map[id].game_state.board, position, "Black")

LegalOnRead(id, position) == LegalOn(sessions, id, position)

\* Replay of a move log from `board`: every move brackets, and flips what
\* the log says it flipped.
RECURSIVE ReplayLog(_, _, _)
ReplayLog(board, log, i) ==
    IF i > Len(log) THEN [ok |-> TRUE, board |-> board]
    ELSE LET m == log[i]
             flips == get_flipped_positions(board, m.position, m.player)
             turned == {CellIndex(flips[k]) : k \in 1..Len(flips)}
                       \cup {CellIndex(m.position)}
         IN IF board[CellIndex(m.position)] # "Empty" \/ flips = << >>
                  \/ flips # m.flipped
            THEN [ok |-> FALSE, board |-> board]
            ELSE ReplayLog([j \in DOMAIN board |->
                               IF j \in turned THEN m.player ELSE board[j]],
                           log, i + 1)

\* The board of the game state is the one its move log produces by legal
\* play from the opening position.
LegallyPlayed(gs) ==
    LET played == ReplayLog(BoardNew, gs.move_history, 1) IN
    played.ok /\ played.board = gs.board

MoveErrors ==
    {"InvalidMove", "NotPlayerTurn", "AiThinkingError", "GameAlreadyFinished",
     "GameNotFound"}

(***************************************************************************)
(* C1.  Every make_player_move that reads a session on which its position  *)
(* is not a legal placement for the human to move (the session is absent   *)
(* or finished, the mover is the opponent, the thinking flag is set, or    *)
(* the position does not bracket) fails with a typed error and writes      *)
(* nothing; a call is applied exactly when its position is legal on the    *)
(* copy it reads; only an applied call returns success, without an         *)
(* opponent move when its move ended the game and otherwise with the reply *)
(* that follows its move in the stored log; an applied call that does not  *)
(* return success returns the failure of the adapter, of the reply or of   *)
(* the store; and after every step every stored board is the board its     *)
(* move log produces by legal play.                                        *)
(***************************************************************************)
C1_ReadStep(t) ==
    MoveBegins(t) =>
        IF LegalOnRead(MoveCall(t).id, MoveCall(t).position)
        THEN /\ task'[t].op = "move"
             /\ task'[t].pc = "move_store"
             /\ sessions' = sessions
        ELSE /\ task'[t].pc = "idle"
             /\ response'.task = t
             /\ response'.result.status \in MoveErrors
             /\ response'.result.ai_move = << >>
             /\ sessions' = sessions

\* What an applied call returns when it does not return success: the
\* adapter failed, its reply was refused by the rules, or the session was
\* gone at a store.
AppliedErrors == {"AiThinkingError", "GameError", "GameNotFound"}

\* The call that returns success in this step left the session stored with
\* its move as the last entry of the log and the game over, or with its
\* move and then the reply it reports as the last two entries.
C1_Success ==
    LET t == response'.task
        id == response'.id
        log == sessions'[id].game_state.move_history
        n == Len(log)
    IN /\ Accepted(t)
       /\ session_exists(sessions', id)
       /\ IF response'.result.ai_move = << >>
          THEN /\ is_finished(sessions'[id])
               /\ n >= 1
               /\ log[n].player = "Black"
               /\ log[n].position = response'.position
          ELSE /\ n >= 2
               /\ log[n].player = "White"
               /\ << log[n].position >> = response'.result.ai_move
               /\ log[n - 1].player = "Black"
               /\ log[n - 1].position = response'.position

C1_StepOk ==
    /\ \A t \in Tasks : C1_ReadStep(t)
    /\ (response'.op = "move" /\ response'.result.status = "Ok") => C1_Success
    /\ \A t \in Tasks :
           (MoveReturns(t) /\ response'.result.status # "Ok")
               => response'.result.status \in AppliedErrors

\* Every stored board is the one its move log produces by legal play.
C1_LegalBoards ==
    \A id \in DOMAIN sessions : LegallyPlayed(sessions[id].game_state)

C1_TypedFailureLegalBoard == []C1_LegalBoards /\ [][C1_StepOk]_vars

\* Two calls on one session, one applied and in flight, the other rejected
\* as InvalidMove.
C1_Witness ==
    /\ response.op = "move"
    /\ response.result.status = "InvalidMove"
    /\ \E t \in Tasks : Accepted(t) /\ task[t].id = response.id

\* C1 as stated, for the call that names the legal position: it succeeds
\* (here: whenever the session is still stored when the call returns).
C1_LegalCallSucceeds ==
    [][\A t \in Tasks :
          (MoveReturns(t) /\ session_exists(sessions', task[t].id))
              => response'.result.status = "Ok"]_vars

(***************************************************************************)
(* C2.  No two make_player_move calls on one session are both applied to   *)
(* copies of the same stored state: a call never validates and applies its *)
(* move on a copy read before the other call's accepted move was stored.   *)
(***************************************************************************)
C2_NoSharedBase ==
    \A t, u \in Tasks :
        (t # u /\ Accepted(t) /\ Accepted(u) /\ task[t].id = task[u].id)
            => task[t].base # task[u].base

(***************************************************************************)
(* C3.  When make_player_move has applied the human move and the           *)
(* opponent-move procedure fails, the call (its session still being        *)
(* stored) returns that failure, and the session it stores has the human's *)
(* move as the last entry of the move log, the human's stone on the        *)
(* position and on every flipped cell, on a board that is the legal replay *)
(* of the log.                                                             *)
(***************************************************************************)
C3_FailedReply(t) ==
    /\ task[t].pc = "move_finish"
    /\ task[t].pending.status # "Ok"
    /\ task'[t].pc = "idle"
    /\ Live(task[t].id)

C3_Kept(t) ==
    /\ response'.task = t
    /\ response'.result = task[t].pending
    /\ response'.result.status \in {"AiThinkingError", "GameError"}
    /\ session_exists(sessions', task[t].id)
    /\ LET gs == sessions'[task[t].id].game_state
           h == gs.move_history
           last == h[Len(h)]
       IN /\ LogPositions(h) = Append(task[t].base, task[t].position)
          /\ last.player = "Black"
          /\ last.flipped # << >>
          /\ gs.board[CellIndex(task[t].position)] = "Black"
          /\ \A k \in 1..Len(last.flipped) :
                 gs.board[CellIndex(last.flipped[k])] = "Black"
          /\ LegallyPlayed(gs)

C3_HumanMoveKept == [][\A t \in Tasks : C3_FailedReply(t) => C3_Kept(t)]_vars

\* A call has returned the adapter's failure and the stored log ends with
\* the move it made.
C3_Witness ==
    /\ response.op = "move"
    /\ response.result.status = "AiThinkingError"
    /\ Live(response.id)
    /\ LogPositions(sessions[response.id].game_state.move_history)
           = Append(response.base, response.position)

(***************************************************************************)
(* C4.  When, after the human move and the mover switch, the opponent has  *)
(* no legal move, the adapter is not invoked and the call returns success  *)
(* with no opponent reply: with the turn passed back to the human if the   *)
(* human has a legal move, with the game finished if not.                  *)
(***************************************************************************)
C4_OpponentBlocked(gs) ==
    /\ gs.move_history # << >>
    /\ gs.move_history[Len(gs.move_history)].player = "Black"
    /\ ~has_valid_moves(gs.board, "White")

C4_Step(t) ==
    /\ (task'[t].pc = "move_ai")
           => ~C4_OpponentBlocked(task'[t].copy[1].game_state)
    /\ (MoveReturns(t) /\ session_exists(sessions', task[t].id)
            /\ C4_OpponentBlocked(task[t].copy[1].game_state))
           => /\ response'.result.status = "Ok"
              /\ response'.result.ai_move = << >>
              /\ IF has_valid_moves(task[t].copy[1].game_state.board, "Black")
                 THEN /\ sessions'[task[t].id].current_player = "Black"
                      /\ ~is_finished(sessions'[task[t].id])
                 ELSE is_finished(sessions'[task[t].id])

C4_PassBack == [][\A t \in Tasks : C4_Step(t)]_vars

(***************************************************************************)
(* C5.  The thinking flag is stored set before the adapter is invoked; the *)
(* stored flag is set only while a make_player_move on that session is     *)
(* between that store and its final store; the final store, after success  *)
(* and after failure alike, stores it cleared; and a stored flag that is   *)
(* set is eventually cleared (or the session removed).                     *)
(***************************************************************************)
C5_Thinking(t, id) ==
    /\ task[t].op = "move"
    /\ task[t].id = id
    /\ task[t].pc \in {"move_ai", "move_finish"}

C5_FlagOwned ==
    \A id \in DOMAIN sessions :
        sessions[id].ai_thinking => \E t \in Tasks : C5_Thinking(t, id)

C5_Step(t) ==
    /\ (task[t].pc = "move_store" /\ task'[t].pc = "move_ai")
           => sessions'[task[t].id].ai_thinking
    /\ (task[t].pc = "move_ai") => task[t].copy[1].ai_thinking
    /\ (task[t].pc = "move_finish" /\ task'[t].pc = "idle"
            /\ session_exists(sessions', task[t].id))
           => ~sessions'[task[t].id].ai_thinking

C5_FlagSet(id) == Live(id) /\ sessions[id].ai_thinking

C5_FlagCleared ==
    /\ []C5_FlagOwned
    /\ [][\A t \in Tasks : C5_Step(t)]_vars
    /\ \A id \in 1..BattleIds : C5_FlagSet(id) ~> ~C5_FlagSet(id)

\* A call has returned the adapter's failure, and the stored flag is clear.
C5_Witness ==
    /\ response.op = "move"
    /\ response.result.status = "AiThinkingError"
    /\ response.result.detail # "AiBusy"
    /\ Live(response.id)
    /\ ~sessions[response.id].ai_thinking

(***************************************************************************)
(* C6.  While the stored thinking flag of a session is set, a              *)
(* make_player_move on that session is rejected and writes nothing.  The   *)
(* error is that of the first check that fails: GameAlreadyFinished on a   *)
(* finished session, NotPlayerTurn when the stored mover is the opponent,  *)
(* AiThinkingError when the stored mover is the human.  The orchestrator   *)
(* stores the flag set together with the opponent as mover, so a call that *)
(* reads the session as it was stored for the reply gets NotPlayerTurn.    *)
(***************************************************************************)
C6_Flagged(t) == MoveBegins(t) /\ C5_FlagSet(MoveCall(t).id)

C6_Refused(t) ==
    /\ task'[t].pc = "idle"
    /\ response'.task = t
    /\ response'.op = "move"
    /\ response'.result.ai_move = << >>
    /\ sessions' = sessions

\* The checks in the order finished, mover, flag.
C6_Status(session) ==
    IF is_finished(session) THEN "GameAlreadyFinished"
    ELSE IF session.current_player = "White" THEN "NotPlayerTurn"
    ELSE "AiThinkingError"

\* The store before the adapter call: the flag set, the opponent to move.
C6_Stored(t) ==
    (task[t].pc = "move_store" /\ task'[t].pc = "move_ai")
        => /\ session_exists(sessions', task[t].id)
           /\ sessions'[task[t].id].ai_thinking
           /\ sessions'[task[t].id].current_player = "White"
           /\ ~is_finished(sessions'[task[t].id])

C6_BusyIsRefused ==
    [][\A t \in Tasks :
          /\ C6_Flagged(t)
                 => /\ C6_Refused(t)
                    /\ response'.result.status = C6_Status(sessions[MoveCall(t).id])
          /\ C6_Stored(t)]_vars

\* A second call was rejected with NotPlayerTurn while the first one's flag
\* is stored set and its reply is being computed.
C6_Witness ==
    /\ response.op = "move"
    /\ response.result.status = "NotPlayerTurn"
    /\ C5_FlagSet(response.id)
    /\ \E t \in Tasks : C5_Thinking(t, response.id)

\* C6 as stated: the rejection is AiThinkingError (OpponentBusy).
C6_BusyIsOpponentBusy ==
    [][\A t \in Tasks :
          C6_Flagged(t) => /\ C6_Refused(t)
                           /\ response'.result.status = "AiThinkingError"]_vars

(***************************************************************************)
(* C7.  A make_player_move that is rejected on the copy it reads returns   *)
(* InvalidMove, NotPlayerTurn, AiThinkingError, GameAlreadyFinished or     *)
(* GameNotFound and leaves the registry exactly as it was: every stored    *)
(* session has the same board, mover, status, move log and thinking flag,  *)
(* so a position that was legal for the human before the call is still     *)
(* legal after it.                                                         *)
(***************************************************************************)
C7_RejectedOnRead(t) ==
    /\ MoveBegins(t)
    /\ task'[t].pc = "idle"

C7_RejectedLeavesRegistry ==
    [][\A t \in Tasks :
          C7_RejectedOnRead(t)
              => /\ response'.task = t
                 /\ response'.result.status \in MoveErrors
                 /\ sessions' = sessions
                 /\ \A p \in LineInputs(config.lines, Len(StoredLog(response'.id))) :
                        LegalOnRead(response'.id, p)
                            => LegalOn(sessions', response'.id, p)]_vars

\* An illegal position was rejected on a session in play on which a legal
\* move is still open to the human.
C7_Witness ==
    /\ response.op = "move"
    /\ response.result.status = "InvalidMove"
    /\ Len(StoredLog(response.id)) >= 2
    /\ \E p \in LineInputs(config.lines, Len(StoredLog(response.id))) :
           LegalOnRead(response.id, p)

(***************************************************************************)
(* C8.  A session stored as Finished stays Finished, with the same board   *)
(* and move log, for as long as it is stored.                              *)
(***************************************************************************)
C8_FinishedStaysFinished ==
    [][\A id \in DOMAIN sessions :
          (is_finished(sessions[id]) /\ session_exists(sessions', id))
              => /\ is_finished(sessions'[id])
                 /\ sessions'[id].game_state.board = sessions[id].game_state.board
                 /\ sessions'[id].game_state.move_history
                        = sessions[id].game_state.move_history]_vars

(***************************************************************************)
(* C9.  With requests served one at a time, create_session checks the      *)
(* ceiling: with max_sessions or more sessions live it fails with          *)
(* MaxSessionsReached and adds no session; with fewer (as after a removal  *)
(* from a full registry) it goes on to insert a fresh session in its       *)
(* initial state and returns its id, and the create succeeds if the        *)
(* session is still there when it is read back.                            *)
(***************************************************************************)
\* The number of live sessions.
LiveCount(map) == Cardinality(DOMAIN map)

C9_OneAtATime == config.tasks = 1

\* The count of create_session: no step of it changes the registry, and a
\* count that no other request interleaves ends refused exactly when the
\* registry is full.
C9_Count(t) ==
    /\ (task[t].pc = "idle" /\ task'[t].op = "create")
           => /\ task'[t].pc = "create_len"
              /\ sessions' = sessions
    /\ (task[t].pc = "create_len" /\ task'[t] # task[t])
           => /\ sessions' = sessions
              /\ task'[t].pc \in {"create_len", "create_new", "idle"}
    /\ (task[t].pc = "create_new" /\ task'[t] # task[t])
           => /\ sessions' = sessions
              /\ task'[t].pc = "create_insert"
    /\ (C9_OneAtATime /\ task[t].pc = "create_len" /\ task'[t].pc # "create_len")
           => IF LiveCount(sessions) >= config.max_sessions
              THEN /\ task'[t].pc = "idle"
                   /\ response'.task = t
                   /\ response'.result.status = "MaxSessionsReached"
              ELSE task'[t].pc = "create_new"

C9_Step(t) ==
    /\ C9_Count(t)
    /\ (task[t].pc = "create_insert" /\ task'[t] # task[t])
           => /\ task'[t].pc = "create_get"
              /\ ~session_exists(sessions, task'[t].id)
              /\ DOMAIN sessions' = DOMAIN sessions \cup {task'[t].id}
              /\ sessions'[task'[t].id].game_state = GameStateNew
              /\ \A id \in DOMAIN sessions : sessions'[id] = sessions[id]
    /\ (task[t].pc = "create_get" /\ task'[t] # task[t]
            /\ session_exists(sessions, task[t].id))
           => /\ response'.task = t
              /\ response'.id = task[t].id
              /\ response'.result.status = "Ok"
              /\ sessions' = sessions

C9_AdmissionSequential == [][\A t \in Tasks : C9_Step(t)]_vars

\* With requests one at a time: the registry was full, its newest session
\* was removed, the next create took the free place, and the create after
\* that one has just been refused.
C9_Witness ==
    /\ response.op = "create"
    /\ response.result.status = "MaxSessionsReached"
    /\ LiveCount(sessions) = config.max_sessions
    /\ DOMAIN sessions = (1..(config.max_sessions - 1)) \cup {config.max_sessions + 1}

(***************************************************************************)
(* C10.  The number of live sessions never exceeds max_sessions.           *)
(***************************************************************************)
C10_CeilingRespected == LiveCount(sessions) <= config.max_sessions

(***************************************************************************)
(* C11.  With fallback enabled and at least two attempts allowed: when the *)
(* primary adapter fails on the position (it always fails) and the         *)
(* secondary answers it with a legal move, the opponent-move step of       *)
(* make_player_move ends with success and the secondary's move as the      *)
(* opponent move.                                                          *)
(***************************************************************************)
C11_FallbackConfigured ==
    /\ policy.cfg.enable_fallback
    /\ policy.cfg.fallback_ai_service # "None"
    /\ policy.cfg.max_retry_attempts >= 2

C11_Answers(service, session) ==
    AdapterResults(service, config.lines, session.game_state, session.ai_difficulty)

C11_Step(t) ==
    (/\ C11_FallbackConfigured
     /\ task[t].pc = "move_ai" /\ task'[t].pc = "move_finish"
     /\ \A r \in C11_Answers(config.ai_service, task[t].copy[1]) : ~r.ok
     /\ \A r \in C11_Answers(policy.cfg.fallback_ai_service, task[t].copy[1]) : r.ok)
        => \E r \in C11_Answers(policy.cfg.fallback_ai_service, task[t].copy[1]) :
               task'[t].pending = Result("Ok", "None", << r.position >>)

C11_FallbackReply == [][\A t \in Tasks : C11_Step(t)]_vars

(***************************************************************************)
(* C12.  calculate_move_with_fallback returns after finitely many steps.   *)
(* When it fails it has called the primary adapter max(N, 1) times with    *)
(* fallback enabled (N = max_retry_attempts) and once with fallback        *)
(* disabled, the secondary (if there is one and fallback is enabled) once  *)
(* less, and the AiThinkingError carries that attempt count and the error  *)
(* of the last primary call; `attempts` always equals the number of        *)
(* primary calls made.                                                     *)
(***************************************************************************)
C12_Allowed ==
    IF policy.cfg.enable_fallback /\ policy.cfg.max_retry_attempts >= 1
    THEN policy.cfg.max_retry_attempts
    ELSE 1

C12_Counted ==
    /\ policy.attempts = policy.primary_calls
    /\ policy.primary_calls <= C12_Allowed
    /\ policy.fallback_calls <= policy.primary_calls
    /\ (policy.pc \in {"fallback", "sleep"}) => policy.primary_calls < C12_Allowed

C12_Fails ==
    /\ policy.pc # "idle"
    /\ policy'.pc = "idle"
    /\ policy'.outcome.status = "AiThinkingError"

C12_FailStep ==
    C12_Fails
        => /\ policy.pc = "primary"
           /\ policy'.primary_calls = C12_Allowed
           /\ policy'.outcome.attempts = C12_Allowed
           /\ policy'.outcome.error = policy'.e
           /\ policy'.outcome.error
                  \in {r.err : r \in AdapterResults(config.ai_service, config.lines,
                                                    policy.game_state,
                                                    policy.difficulty)}
           /\ policy'.fallback_calls =
                  IF policy.cfg.enable_fallback
                     /\ policy.cfg.fallback_ai_service # "None"
                  THEN C12_Allowed - 1 ELSE 0

\* The adapter fails on the position the policy was called with, whenever
\* it is asked.
C12_AlwaysFails(service) ==
    \A r \in AdapterResults(service, config.lines, policy.game_state,
                             policy.difficulty) : ~r.ok

\* Both adapters always fail: the call cannot succeed.
C12_BothFail ==
    (/\ policy.pc # "idle" \/ policy.outcome.status # "None"
     /\ C12_AlwaysFails(config.ai_service)
     /\ policy.cfg.fallback_ai_service # "None"
            => C12_AlwaysFails(policy.cfg.fallback_ai_service))
        => policy.outcome.status # "Ok"

C12_RetryExhaustion ==
    /\ [](C12_Counted /\ C12_BothFail)
    /\ [][C12_FailStep]_vars
    /\ (policy.pc # "idle") ~> (policy.pc = "idle")

\* Both adapters always fail and N = MaxAttempts: the call has failed after
\* N calls of the primary and N - 1 of the secondary.
C12_Witness ==
    /\ config.ai_service = "Failing"
    /\ policy.cfg = FallbackConfig(TRUE, MaxAttempts, "Failing")
    /\ policy.pc = "idle"
    /\ policy.outcome.status = "AiThinkingError"
    /\ policy.outcome.attempts = MaxAttempts
    /\ policy.primary_calls = MaxAttempts
    /\ policy.fallback_calls = MaxAttempts - 1

\* C12 as stated, for every N: exactly N primary attempts, count N.
C12_ExactlyMaxAttempts ==
    [][(C12_Fails /\ C12_AlwaysFails(config.ai_service)
            /\ policy.cfg.enable_fallback
            /\ policy.cfg.fallback_ai_service # "None"
            /\ C12_AlwaysFails(policy.cfg.fallback_ai_service))
          => /\ policy'.primary_calls = policy.cfg.max_retry_attempts
             /\ policy'.outcome.attempts = policy.cfg.max_retry_attempts]_vars

(***************************************************************************)
(* The rules of the game, stated on the board alone.                       *)
(***************************************************************************)
\* The k-th cell from `position` in direction d (it may lie off the board).
Along(position, d, k) ==
    [row |-> position.row + k * DIRECTIONS[d][1],
     col |-> position.col + k * DIRECTIONS[d][2]]

OnBoard(position) == position \in Positions

\* In direction d the k cells next to `position` hold the opponent's colour
\* and the cell after them holds the mover's.
Encloses(board, position, mover, d, k) ==
    /\ OnBoard(Along(position, d, k + 1))
    /\ \A i \in 1..k : board[CellIndex(Along(position, d, i))] = opposite(mover)
    /\ board[CellIndex(Along(position, d, k + 1))] = mover

Runs == (1..Len(DIRECTIONS)) \X (1..(BOARD_SIZE - 2))

LegalPlacement(board, position, mover) ==
    /\ board[CellIndex(position)] = "Empty"
    /\ \E run \in Runs : Encloses(board, position, mover, run[1], run[2])

\* The cells of all enclosed runs.
EnclosedCells(board, position, mover) ==
    UNION {{Along(position, run[1], i) : i \in 1..run[2]} :
              run \in {x \in Runs : Encloses(board, position, mover, x[1], x[2])}}

SeqToSet(seq) == {seq[i] : i \in 1..Len(seq)}

\* This step is a call of `op` on a game state.
Calls(op) == call'.op = op /\ call'.id \in DOMAIN games

(***************************************************************************)
(* C13.  is_valid_move(board, position, mover) is true exactly when the    *)
(* cell is Empty and in at least one of the 8 directions a run of one or   *)
(* more opponent cells next to it is followed by a mover cell; checked for *)
(* every cell and both movers on every board reached.                      *)
(***************************************************************************)
C13_LegalIffEncloses ==
    \A id \in DOMAIN games : \A position \in Positions, mover \in Player :
        is_valid_move(games[id].board, position, mover)
            <=> LegalPlacement(games[id].board, position, mover)

\* apply_move has just refused an empty cell that flips nothing, on a board
\* in play where the mover has a legal placement elsewhere.
C13_Witness ==
    /\ call.op = "apply_move"
    /\ call.err = "InvalidMove"
    /\ call.id \in DOMAIN games
    /\ LET gs == games[call.id] IN
       /\ Len(gs.move_history) >= 2
       /\ is_empty(gs.board, call.position)
       /\ get_flipped_positions(gs.board, call.position, gs.current_player) = << >>
       /\ \E position \in Positions :
              LegalPlacement(gs.board, position, gs.current_player)

(***************************************************************************)
(* C14.  The flip list a successful apply_move returns is non-empty, has   *)
(* no repetition, and is the set of cells of the opponent runs that end on *)
(* a mover cell; each of these cells held the opponent's colour before the *)
(* call and holds the mover's colour after it.                             *)
(***************************************************************************)
C14_FlipsAreEnclosedRuns ==
    [][(Calls("apply_move") /\ call'.status = "Ok")
          => LET before == games[call'.id]
                 after == games'[call'.id]
                 mover == before.current_player
                 flips == SeqToSet(call'.flipped)
             IN /\ call'.flipped # << >>
                /\ Cardinality(flips) = Len(call'.flipped)
                /\ flips = EnclosedCells(before.board, call'.position, mover)
                /\ \A q \in flips :
                       /\ before.board[CellIndex(q)] = opposite(mover)
                       /\ after.board[CellIndex(q)] = mover]_vars

\* A move has flipped runs in two directions at once, while another run of
\* opponent cells next to the placed stone ended on an empty cell or the edge.
C14_Witness ==
    /\ call.op = "apply_move"
    /\ call.status = "Ok"
    /\ call.id \in DOMAIN games
    /\ \E q1, q2 \in SeqToSet(call.flipped) :
           /\ q1.row # q2.row
           /\ q1.col # q2.col
    /\ LET gs == games[call.id]
           mover == gs.move_history[Len(gs.move_history)].player
       IN \E d \in 1..Len(DIRECTIONS) :
              /\ OnBoard(Along(call.position, d, 1))
              /\ gs.board[CellIndex(Along(call.position, d, 1))] = opposite(mover)

(***************************************************************************)
(* C15.  apply_move on a Finished state fails with GameFinished whatever   *)
(* the position; on a state that is not Finished it fails with InvalidMove *)
(* when the position is not a legal placement for the current mover and    *)
(* succeeds otherwise; a failed call leaves the game state as it was.      *)
(***************************************************************************)
C15_RefusedUnchanged ==
    [][Calls("apply_move")
          => LET before == games[call'.id]
                 legal == LegalPlacement(before.board, call'.position,
                                         before.current_player)
             IN /\ call'.status \in {"Ok", "Err"}
                /\ (call'.status = "Err") => games' = games
                /\ IF before.game_status.tag = "Finished"
                   THEN call'.status = "Err" /\ call'.err = "GameFinished"
                   ELSE IF ~legal
                   THEN call'.status = "Err" /\ call'.err = "InvalidMove"
                   ELSE call'.status = "Ok"]_vars

\* A placement that the board allows has just been refused because the
\* game, finished after some play, is over.
C15_Witness ==
    /\ call.op = "apply_move"
    /\ call.err = "GameFinished"
    /\ call.id \in DOMAIN games
    /\ LET gs == games[call.id] IN
       /\ gs.game_status.tag = "Finished"
       /\ Len(gs.move_history) >= 1
       /\ LegalPlacement(gs.board, call.position, gs.current_player)

(***************************************************************************)
(* C16.  A successful apply_move sets the placed cell and the flipped      *)
(* cells to the mover's colour, leaves every other cell as it was, appends *)
(* the one record {mover, position, flips} to the move log and leaves the  *)
(* current mover and the status as they were; the current mover changes    *)
(* only in a switch_player or handle_turn call.                            *)
(***************************************************************************)
C16_Applied ==
    (Calls("apply_move") /\ call'.status = "Ok")
        => LET before == games[call'.id]
               after == games'[call'.id]
               mover == before.current_player
               turned == SeqToSet(call'.flipped) \cup {call'.position}
           IN /\ \A q \in Positions :
                     after.board[CellIndex(q)] =
                         IF q \in turned THEN mover ELSE before.board[CellIndex(q)]
              /\ before.board[CellIndex(call'.position)] = "Empty"
              /\ after.move_history =
                     Append(before.move_history,
                            [player |-> mover, position |-> call'.position,
                             flipped |-> call'.flipped])
              /\ after.current_player = before.current_player
              /\ after.game_status = before.game_status

C16_MoverKept ==
    \A id \in DOMAIN games \cap DOMAIN games' :
        games'[id].current_player # games[id].current_player
            => call'.op \in {"switch_player", "handle_turn"}

C16_OnlyPlacedAndFlipped == [][C16_Applied /\ C16_MoverKept]_vars

\* Two moves were applied in a row with no switch_player between them: the
\* log's last two entries have the same mover, who is still to move.
C16_Witness ==
    /\ call.op = "apply_move"
    /\ call.status = "Ok"
    /\ call.id \in DOMAIN games
    /\ LET gs == games[call.id]
           n == Len(gs.move_history)
       IN /\ n >= 2
          /\ gs.move_history[n].player = gs.move_history[n - 1].player
          /\ gs.current_player = gs.move_history[n].player
          /\ gs.game_status.tag = "InProgress"

(***************************************************************************)
(* C17.  In a game played through make_move (apply_move, switch_player,    *)
(* handle_turn) the first entry of the move log is Black's, and two        *)
(* consecutive entries have different movers unless the player due after   *)
(* the earlier one had no legal placement (handle_turn passed), in which   *)
(* case they have the same mover; each entry records the current mover of  *)
(* the state it was applied to, and the move hands the turn to the other   *)
(* player when that player can move, back to the mover when only the       *)
(* mover can, and ends the game when neither can.                          *)
(***************************************************************************)
CanMove(board, player) ==
    \E position \in Positions : LegalPlacement(board, position, player)

BoardAfter(log, n) == ReplayLog(BoardNew, SubSeq(log, 1, n), 1).board

C17_Passed(log, i) == ~CanMove(BoardAfter(log, i), opposite(log[i].player))

C17_Log(log) ==
    /\ (log # << >>) => log[1].player = "Black"
    /\ \A i \in 1..(Len(log) - 1) :
           log[i + 1].player = IF C17_Passed(log, i) THEN log[i].player
                               ELSE opposite(log[i].player)

C17_Alternates == \A id \in DOMAIN games : C17_Log(games[id].move_history)

C17_MoveStep ==
    (Calls("make_move") /\ call'.status = "Ok")
        => LET before == games[call'.id]
               after == games'[call'.id]
               mover == before.current_player
               n == Len(after.move_history)
           IN /\ n = Len(before.move_history) + 1
              /\ after.move_history[n].player = mover
              /\ after.move_history[n].position = call'.position
              /\ IF CanMove(after.board, opposite(mover))
                 THEN /\ after.current_player = opposite(mover)
                      /\ after.game_status = before.game_status
                 ELSE IF CanMove(after.board, mover)
                 THEN /\ after.current_player = mover
                      /\ after.game_status = before.game_status
                 ELSE after.game_status.tag = "Finished"

C17_TurnAlternation == []C17_Alternates /\ [][C17_MoveStep]_vars

\* A log in which a player moved twice in a row after a pass and the other
\* player moved next.
C17_Witness ==
    \E id \in DOMAIN games :
        LET log == games[id].move_history IN
        \E i \in 1..(Len(log) - 2) :
            /\ log[i].player = log[i + 1].player
            /\ log[i + 2].player # log[i + 1].player
            /\ call.op = "make_move"
            /\ call.status = "Ok"

(***************************************************************************)
(* C18.  handle_turn returns false and changes nothing when the current    *)
(* mover has a legal placement.  Otherwise it returns true and switches    *)
(* the mover, board and move log unchanged; the status is unchanged if the *)
(* new mover has a legal placement and otherwise Finished with the winner  *)
(* and the tally counted on the board.  After a call on a state that was   *)
(* not Finished the status is Finished or the current mover can move.      *)
(***************************************************************************)
Tally(board, player) ==
    Cardinality({position \in Positions : board[CellIndex(position)] = player})

WinnerOnBoard(board) ==
    IF Tally(board, "Black") > Tally(board, "White") THEN "Black"
    ELSE IF Tally(board, "White") > Tally(board, "Black") THEN "White"
    ELSE "None"

C18_Step ==
    Calls("handle_turn")
        => LET before == games[call'.id]
               after == games'[call'.id]
               mover == before.current_player
           IN /\ IF CanMove(before.board, mover)
                 THEN /\ ~call'.changed
                      /\ after = before
                 ELSE /\ call'.changed
                      /\ after.current_player = opposite(mover)
                      /\ after.board = before.board
                      /\ after.move_history = before.move_history
                      /\ IF CanMove(before.board, opposite(mover))
                         THEN after.game_status = before.game_status
                         ELSE after.game_status =
                                  [tag |-> "Finished",
                                   winner |-> WinnerOnBoard(before.board),
                                   score |-> << Tally(before.board, "Black"),
                                                Tally(before.board, "White") >>]
              /\ (before.game_status.tag # "Finished")
                     => \/ after.game_status.tag = "Finished"
                        \/ CanMove(after.board, after.current_player)

C18_AdvanceTurn == [][C18_Step]_vars

\* handle_turn has just ended a game in play: White, to move, has no stone
\* left and Black cannot move either; Black is recorded as the winner.
C18_Witness ==
    /\ call.op = "handle_turn"
    /\ call.changed
    /\ call.id \in DOMAIN games
    /\ LET gs == games[call.id] IN
       /\ gs.game_status.tag = "Finished"
       /\ gs.game_status.winner = "Black"
       /\ gs.game_status.score[2] = 0
       /\ gs.current_player = "Black"
       /\ Len(gs.move_history) = Len(OverLine)

(***************************************************************************)
(* C19.  The status of a game state changes only from InProgress to Paused *)
(* (in a pause call), from Paused to InProgress (in a resume call) and to  *)
(* Finished (in a finish or handle_turn call); a Finished state stays      *)
(* Finished under every call; pause on a state that is not InProgress and  *)
(* resume on a state that is not Paused change nothing, and otherwise they *)
(* change the status only.                                                 *)
(***************************************************************************)
C19_Step ==
    \A id \in DOMAIN games \cap DOMAIN games' :
        LET before == games[id]
            after == games'[id]
            a == before.game_status.tag
            b == after.game_status.tag
        IN /\ (a = "Finished") => b = "Finished"
           /\ (a = "InProgress" /\ b = "Paused") => call'.op = "pause"
           /\ (a = "Paused" /\ b = "InProgress") => call'.op = "resume"
           /\ (a # "Finished" /\ b = "Finished")
                  => call'.op \in {"finish", "handle_turn"}
           /\ (call'.op = "pause" /\ call'.id = id)
                  => after = IF a = "InProgress"
                             THEN [before EXCEPT !.game_status = StatusPaused]
                             ELSE before
           /\ (call'.op = "resume" /\ call'.id = id)
                  => after = IF a = "Paused"
                             THEN [before EXCEPT !.game_status = StatusInProgress]
                             ELSE before

C19_StatusMoves == [][C19_Step]_vars

\* pause has just been called on a game that handle_turn or finish had
\* ended after some play: it is still Finished.
C19_Witness ==
    /\ call.op = "pause"
    /\ call.id \in DOMAIN games
    /\ games[call.id].game_status.tag = "Finished"
    /\ Len(games[call.id].move_history) >= 1

(***************************************************************************)
(* C20.  A finish call or a handle_turn call on a game state that is       *)
(* already Finished changes nothing: the recorded winner, the recorded     *)
(* tally and the current mover stay as they were.                          *)
(***************************************************************************)
C20_FinishedFrozen ==
    [][\A id \in DOMAIN games :
          (/\ games[id].game_status.tag = "Finished"
           /\ call'.op \in {"finish", "handle_turn"}
           /\ call'.id = id)
              => /\ games'[id].game_status = games[id].game_status
                 /\ games'[id].current_player = games[id].current_player]_vars

(***************************************************************************)
(* C21.  A game state as create_game stores it holds the standard opening  *)
(* (tally 2-2) on which Black, the first mover, has exactly the legal      *)
(* moves (2,3), (3,2), (4,5), (5,4); apply_move of (2,3) on it succeeds,   *)
(* returns exactly the flip list (3,3), leaves the tally 4-1 and one entry *)
(* in the move log.                                                        *)
(***************************************************************************)
C21_Opening(gs) ==
    /\ gs.current_player = "Black"
    /\ count_pieces(gs.board) = << 2, 2 >>
    /\ Len(get_valid_moves(gs.board, gs.current_player)) = 4
    /\ SeqToSet(get_valid_moves(gs.board, gs.current_player))
           = {Pos(2, 3), Pos(3, 2), Pos(4, 5), Pos(5, 4)}

C21_Created == Calls("create_game") => C21_Opening(games'[call'.id])

C21_FirstMove ==
    (/\ Calls("apply_move")
     /\ call'.position = Pos(2, 3)
     /\ games[call'.id].move_history = << >>
     /\ games[call'.id].current_player = "Black"
     /\ ~game_is_finished(games[call'.id]))
        => /\ call'.status = "Ok"
           /\ call'.flipped = << Pos(3, 3) >>
           /\ count_pieces(games'[call'.id].board) = << 4, 1 >>
           /\ Len(games'[call'.id].move_history) = 1
           /\ games'[call'.id].move_history[1].position = Pos(2, 3)
           /\ games'[call'.id].move_history[1].player = "Black"

C21_OpeningMoves == [][C21_Created /\ C21_FirstMove]_vars

\* (2,3) has just been applied to the opening position.
C21_Witness ==
    /\ call.op = "apply_move"
    /\ call.status = "Ok"
    /\ call.position = Pos(2, 3)
    /\ call.id \in DOMAIN games
    /\ Len(games[call.id].move_history) = 1
    /\ count_pieces(games[call.id].board) = << 4, 1 >>

(***************************************************************************)
(* The legal moves of a mover in row-major order, stated on the board.     *)
(***************************************************************************)
LegalSet(board, mover) ==
    {q \in Positions : LegalPlacement(board, q, mover)}

\* The number of legal moves that come before `position` in row-major order:
\* the index of `position` in the row-major list of legal moves.
RowMajorIndex(board, mover, position) ==
    Cardinality({q \in LegalSet(board, mover) :
                    q.row * BOARD_SIZE + q.col
                        < position.row * BOARD_SIZE + position.col})

\* This step is the return of a calculate_move call.
Calculates == call'.op = "calculate_move" /\ call'.id \in DOMAIN games

\* The lowest tier: the strategy made for Easy, alone or behind the
\* built-in adapter.
LowestTier(c) ==
    c.service \in {"Strategy", "Local", "LocalFast"} /\ c.difficulty = "Easy"

(***************************************************************************)
(* C22.  The lowest-tier strategy, asked on a state that is not Finished   *)
(* and whose mover has n >= 1 legal moves, returns the legal move at index *)
(* (move_count * 7 + mover_ordinal * 3) mod n of the row-major list of     *)
(* legal moves (mover_ordinal 0 for Black, 1 for White): a legal move, and *)
(* a function of the state alone.                                          *)
(***************************************************************************)
C22_Step ==
    (Calculates /\ LowestTier(call'))
        => LET gs == games[call'.id]
               mover == gs.current_player
               n == Cardinality(LegalSet(gs.board, mover))
               ordinal == IF mover = "Black" THEN 0 ELSE 1
           IN (~game_is_finished(gs) /\ n >= 1)
                  => /\ call'.status = "Ok"
                     /\ call'.position \in LegalSet(gs.board, mover)
                     /\ RowMajorIndex(gs.board, mover, call'.position)
                            = (Len(gs.move_history) * 7 + ordinal * 3) % n
                     /\ games' = games

C22_DeterministicLegal == [][C22_Step]_vars

\* The strategy has answered for White, some moves into a game, with a
\* legal move that is neither the first nor the second of the row-major
\* list.
C22_Witness ==
    /\ call.op = "calculate_move"
    /\ call.service = "Strategy"
    /\ call.difficulty = "Easy"
    /\ call.status = "Ok"
    /\ call.id \in DOMAIN games
    /\ LET gs == games[call.id] IN
       /\ gs.current_player = "White"
       /\ Len(gs.move_history) >= 2
       /\ RowMajorIndex(gs.board, "White", call.position) > 1

(***************************************************************************)
(* C23.  A strategy or adapter asked on a Finished state fails with        *)
(* StrategyError without having slept, and returns no position on a state  *)
(* whose mover has no legal move; the lowest-tier strategy and the         *)
(* adapters fail with NoValidMoves on a state that is not Finished and     *)
(* whose mover has no legal move, while the two placeholder strategies     *)
(* fail with StrategyError on every state.                                 *)
(***************************************************************************)
C23_Placeholder(c) == c.service = "Strategy" /\ c.difficulty # "Easy"

C23_OnFinished ==
    (Calculates /\ game_is_finished(games[call'.id]))
        => /\ call'.status = "Err"
           /\ call'.err = "StrategyError"
           /\ ~call'.slept

C23_Blocked(gs) ==
    ~game_is_finished(gs) /\ ~CanMove(gs.board, gs.current_player)

C23_OnBlocked ==
    (Calculates /\ C23_Blocked(games[call'.id]))
        => /\ call'.status = "Err"
           /\ call'.err = IF C23_Placeholder(call') THEN "StrategyError"
                          ELSE "NoValidMoves"

C23_NoMoveNoPosition ==
    [][/\ C23_OnFinished
       /\ C23_OnBlocked
       /\ (Calculates /\ C23_Placeholder(call'))
              => (call'.status = "Err" /\ call'.err = "StrategyError")]_vars

\* The built-in adapter has failed with NoValidMoves, without sleeping, on
\* a state in play whose mover has no stone left.
C23_Witness ==
    /\ call.op = "calculate_move"
    /\ call.service = "Local"
    /\ call.err = "NoValidMoves"
    /\ ~call.slept
    /\ call.id \in DOMAIN games
    /\ C23_Blocked(games[call.id])
    /\ Len(games[call.id].move_history) = 9

\* C23 as stated, for every strategy and adapter: NoValidMoves on a state
\* in play whose mover has no legal move.
C23_BlockedIsNoValidMoves ==
    [][(Calculates /\ C23_Blocked(games[call'.id]))
          => (call'.status = "Err" /\ call'.err = "NoValidMoves")]_vars

(***************************************************************************)
(* C24.  A get, remove, set_thinking or is_thinking call, and the read of  *)
(* a move, of a change of difficulty or of a create, on an id that is not  *)
(* in the registry returns NotFound and leaves the registry as it is; an   *)
(* update (the write-back of a move or of a change of difficulty) of a     *)
(* copy whose session is no longer in the registry returns NotFound and    *)
(* leaves the registry as it is; an id that has left the registry never    *)
(* comes back.                                                             *)
(***************************************************************************)
RegistryReads == {"get", "remove", "set_thinking", "is_thinking", "move", "change"}

\* Task t makes a one-step registry call, or the read of a handler, on `id`.
C24_Reads(t, id) ==
    \/ /\ task[t].pc = "idle"
       /\ \/ response'.task = t /\ response'.op \in RegistryReads
                /\ response'.id = id
          \/ task'[t].op \in RegistryReads /\ task'[t].id = id
    \/ task[t].pc = "create_get" /\ task[t].id = id /\ task'[t] # task[t]

\* Task t makes the update_session call of its handler.
C24_Updates(t) ==
    /\ task[t].pc \in {"move_store", "move_finish", "change_store"}
    /\ task'[t] # task[t]

C24_NotFound(t) ==
    /\ response'.task = t
    /\ response'.result.status = "GameNotFound"
    /\ response'.result.ai_move = << >>
    /\ task'[t].pc = "idle"
    /\ sessions' = sessions

C24_Step ==
    /\ \A t \in Tasks, id \in Ids :
           (C24_Reads(t, id) /\ id \notin DOMAIN sessions) => C24_NotFound(t)
    /\ \A t \in Tasks :
           (C24_Updates(t) /\ task[t].copy[1].id \notin DOMAIN sessions)
               => C24_NotFound(t)
    /\ \A id \in Ids :
           (id < next_id /\ id \notin DOMAIN sessions) => id \notin DOMAIN sessions'

C24_AbsentIsNotFound == [][C24_Step]_vars

\* A change of difficulty read the session after its first exchange, the
\* session was removed, and the write-back has just failed with NotFound.
C24_Witness ==
    /\ response.op = "change"
    /\ response.result.status = "GameNotFound"
    /\ Len(response.base) = SessionPlies
    /\ response.id \notin DOMAIN sessions
    /\ response.id < next_id

(***************************************************************************)
(* C25.  cleanup_inactive_sessions fixes its cutoff (the current time      *)
(* minus the timeout) when it starts; of every session its scan reads it   *)
(* collects exactly those whose last-activity timestamp is older than the  *)
(* cutoff; the scan ends only when every session that has been in the      *)
(* registry since it began has been read; it removes each collected        *)
(* session that is still in the registry and nothing else, counts one for  *)
(* each session it removes, runs until none is left to remove, and returns *)
(* that count.                                                             *)
(***************************************************************************)
\* The sweep of task t starts.
C25_Start(t) ==
    (task[t].pc = "idle" /\ task'[t].op = "sweep")
        => /\ task'[t].cutoff_time = now - config.session_timeout_minutes
           /\ task'[t].expired = << >>
           /\ task'[t].removed_count = 0
           /\ sessions' = sessions

\* The ids the scan of task t has read so far and those it has collected.
C25_Read(frame) == frame.visited

C25_Listed(frame) == SeqToSet(frame.expired)

\* The scan reads one more session: it is collected iff it is older than
\* the cutoff.
C25_Scan(t) ==
    (task[t].pc = "sweep_scan" /\ task'[t].pc = "sweep_scan" /\ task'[t] # task[t])
        => \E id \in DOMAIN sessions :
              /\ id \notin C25_Read(task[t])
              /\ C25_Read(task'[t]) = C25_Read(task[t]) \cup {id}
              /\ C25_Listed(task'[t]) \ C25_Listed(task[t])
                     = IF sessions[id].last_move_at < task[t].cutoff_time
                       THEN {id} ELSE {}
              /\ Len(task'[t].expired) = Cardinality(C25_Listed(task'[t]))
              /\ SubSeq(task'[t].expired, 1, Len(task[t].expired))
                     = task[t].expired
              /\ sessions' = sessions

\* The scan ends: what it collected is carried to the removals, and no
\* session that has been in the registry since the scan began is unread.
C25_Collected(t) ==
    (task[t].pc = "sweep_scan" /\ task'[t].pc = "sweep_remove")
        => /\ task'[t].expired = task[t].expired
           /\ task'[t].removed_count = 0
           /\ \A id \in DOMAIN sessions :
                  id \in task[t].present => id \in C25_Read(task[t])
           /\ sessions' = sessions

C25_Remove(t) ==
    (task[t].pc = "sweep_remove" /\ task'[t].pc = "sweep_remove"
        /\ task'[t] # task[t])
        => LET id == Head(task[t].expired) IN
           /\ task'[t].expired = Tail(task[t].expired)
           /\ DOMAIN sessions' = DOMAIN sessions \ {id}
           /\ \A k \in DOMAIN sessions' : sessions'[k] = sessions[k]
           /\ task'[t].removed_count - task[t].removed_count
                  = Cardinality(DOMAIN sessions) - Cardinality(DOMAIN sessions')

C25_Return(t) ==
    (task[t].op = "sweep" /\ task'[t].pc = "idle")
        => /\ task[t].pc = "sweep_remove"
           /\ task[t].expired = << >>
           /\ response'.op = "sweep"
           /\ response'.task = t
           /\ response'.count = task[t].removed_count
           /\ sessions' = sessions

C25_SweepRemovesIdle ==
    [][\A t \in Tasks : /\ C25_Start(t) /\ C25_Scan(t) /\ C25_Collected(t)
                        /\ C25_Remove(t) /\ C25_Return(t)]_vars

\* After the clock has advanced a sweep has removed the one session, left
\* the registry empty and returned the count 1.
C25_Witness ==
    /\ response.op = "sweep"
    /\ response.count = 1
    /\ sessions = << >>
    /\ next_id > 1
    /\ now = MaxTime

(***************************************************************************)
(* C26.  With one request at a time: the history of a new session is       *)
(* empty; a make_player_move that succeeds with an opponent reply leaves   *)
(* the history it found extended by exactly two entries, the human's       *)
(* (Black, the position of the call) and the opponent's (White, the        *)
(* position of the reply), in this order; a call that fails on its checks  *)
(* leaves the history as it is.  So after n such calls in a row the        *)
(* history has 2n entries, alternating Black and White.                    *)
(***************************************************************************)
C26_History(map, id) == get_move_history(map, id).moves

C26_Created ==
    (response'.op = "create" /\ response'.result.status = "Ok")
        => /\ get_move_history(sessions', response'.id).ok
           /\ C26_History(sessions', response'.id) = << >>

\* The move of this response succeeded and was answered.
C26_Answered(r) ==
    r.op = "move" /\ r.result.status = "Ok" /\ r.result.ai_move # << >>

C26_Extended ==
    C26_Answered(response')
        => /\ get_move_history(sessions', response'.id).ok
           /\ C26_History(sessions', response'.id)
                  = C26_History(sessions, response'.id)
                    \o << MoveRecordNew("White", response'.result.ai_move[1]) >>
           /\ LET before == C26_History(sessions, response'.id)
                  n == Len(before)
              IN /\ n >= 1
                 /\ before[n] = MoveRecordNew("Black", response'.position)
                 /\ LogPositions(SubSeq(before, 1, n - 1)) = response'.base

C26_Rejected ==
    \A t \in Tasks :
        (MoveBegins(t) /\ task'[t].pc = "idle")
            => C26_History(sessions', response'.id)
                   = C26_History(sessions, response'.id)

\* The entries of the history alternate, Black first.
C26_Alternating(moves) ==
    \A i \in 1..Len(moves) :
        moves[i].player = IF i % 2 = 1 THEN "Black" ELSE "White"

\* One request at a time: the service runs a single request handler.
C26_OneAtATime == config.tasks = 1

C26_HistoryInOrder ==
    [][C26_OneAtATime => (C26_Created /\ C26_Extended /\ C26_Rejected)]_vars

\* The third answered move of a session: the history has six entries,
\* alternating, the last two being the call's position and the reply.
C26_Witness ==
    /\ C26_OneAtATime
    /\ C26_Answered(response)
    /\ get_move_history(sessions, response.id).ok
    /\ LET moves == C26_History(sessions, response.id) IN
       /\ Len(moves) = 6
       /\ C26_Alternating(moves)
       /\ moves[5].position = response.position
       /\ moves[6].position = response.result.ai_move[1]

(***************************************************************************)
(* C27.  In every stored session the number of occupied cells of the board *)
(* is 4 plus the number of entries of the move log of its game state; the  *)
(* number of pieces is at least 4 and at most 64 and the log has at most   *)
(* 60 entries.                                                             *)
(***************************************************************************)
Occupied(board) == Cardinality({i \in DOMAIN board : board[i] # "Empty"})

C27_PieceCount ==
    \A id \in DOMAIN sessions :
        LET gs == sessions[id].game_state IN
        /\ Occupied(gs.board) = 4 + Len(gs.move_history)
        /\ Occupied(gs.board) >= 4
        /\ Occupied(gs.board) <= BOARD_SIZE * BOARD_SIZE
        /\ Len(gs.move_history) <= BOARD_SIZE * BOARD_SIZE - 4

\* A move has just been rejected as illegal on a session with eight moves
\* in its log and twelve pieces on its board.
C27_Witness ==
    /\ response.op = "move"
    /\ response.result.status = "InvalidMove"
    /\ response.id \in DOMAIN sessions
    /\ Len(sessions[response.id].game_state.move_history) = 8
    /\ Occupied(sessions[response.id].game_state.board) = 12

(***************************************************************************)
(* C28.  In every stored session: the session is Finished exactly when its *)
(* game state is, and exactly when neither mover has a legal placement on  *)
(* its board; when it is Finished the recorded score is the number of      *)
(* Black and of White pieces on the board, the recorded winner is the      *)
(* mover with more pieces (none when they are equal), and the status of    *)
(* the session names the winner the game state names.                      *)
(***************************************************************************)
C28_Terminal(board) == ~CanMove(board, "Black") /\ ~CanMove(board, "White")

C28_Finalized(session) ==
    LET gs == session.game_state IN
    /\ is_finished(session) <=> game_is_finished(gs)
    /\ is_finished(session) <=> C28_Terminal(gs.board)
    /\ is_finished(session)
           => /\ gs.game_status.score
                    = << Tally(gs.board, "Black"), Tally(gs.board, "White") >>
              /\ gs.game_status.winner = WinnerOnBoard(gs.board)
              /\ session.status.winner = gs.game_status.winner

C28_FinishedIsTerminal ==
    \A id \in DOMAIN sessions : C28_Finalized(sessions[id])

\* The tenth move of a game, a reply of the opponent, has left Black without
\* a piece: the stored session is Finished with White as the winner and the
\* score 0 to 14.
C28_Witness ==
    /\ response.op = "move"
    /\ response.result.status = "Ok"
    /\ response.result.ai_move # << >>
    /\ response.id \in DOMAIN sessions
    /\ LET s == sessions[response.id] IN
       /\ is_finished(s)
       /\ Len(s.game_state.move_history) = 10
       /\ s.status.winner = "White"
       /\ s.game_state.game_status.score = << 0, 14 >>

(***************************************************************************)
(* C29.  While a make_player_move waits for the opponent's move (from the  *)
(* store that sets the thinking flag until the adapter call, with          *)
(* whatever attempts and delays it makes, has returned) the session, as    *)
(* long as it is stored, has its thinking flag set: no step of another     *)
(* request clears it; and no other make_player_move that reads the session *)
(* in that interval passes its checks.                                     *)
(***************************************************************************)
\* Task t has stored the thinking flag and its adapter call has not returned.
C29_Computing(t) == task[t].op = "move" /\ task[t].pc = "move_ai"

C29_FlagHeld(t) ==
    (C29_Computing(t) /\ session_exists(sessions, task[t].id))
        => sessions[task[t].id].ai_thinking

C29_NoCompetitor(t) ==
    \A u \in Tasks \ {t} :
        (C29_Computing(t) /\ MoveBegins(u) /\ MoveCall(u).id = task[t].id)
            => /\ task'[u].pc = "idle"
               /\ response'.result.status # "Ok"

C29_PolicyUnderFlag ==
    [][\A t \in Tasks :
          /\ C29_FlagHeld(t)
          /\ C29_FlagHeld(t)'
          /\ C29_NoCompetitor(t)]_vars

(***************************************************************************)
(* C30.  When the primary adapter always fails, the maximum attempt count  *)
(* N is at least 1, and fallback is disabled or no secondary adapter is    *)
(* configured: every failed attempt on the primary that leaves attempts    *)
(* (fewer than N made) is followed by the delay and another attempt, and   *)
(* the call fails only on the N-th attempt, reporting N attempts.          *)
(***************************************************************************)
C30_NoFallback ==
    ~policy.cfg.enable_fallback \/ policy.cfg.fallback_ai_service = "None"

C30_PrimaryAlwaysFails ==
    \A r \in AdapterResults(config.ai_service, config.lines, policy.game_state,
                             policy.difficulty) : ~r.ok

\* This step is an attempt on the primary.
C30_Attempt ==
    policy.pc = "primary" /\ policy'.primary_calls = policy.primary_calls + 1

C30_Step ==
    (/\ C30_Attempt
     /\ C30_NoFallback
     /\ C30_PrimaryAlwaysFails
     /\ policy.cfg.max_retry_attempts >= 1)
        => IF policy'.primary_calls < policy.cfg.max_retry_attempts
           THEN policy'.pc = "sleep"
           ELSE /\ policy'.pc = "idle"
                /\ policy'.outcome.status = "AiThinkingError"
                /\ policy'.outcome.attempts = policy.cfg.max_retry_attempts
                /\ policy'.primary_calls = policy.cfg.max_retry_attempts

C30_RetryWithoutFallback == [][C30_Step]_vars

(***************************************************************************)
(* C31.  In calculate_move_with_fallback: an attempt on the primary that   *)
(* succeeds returns that result in the same step, without a call of the    *)
(* secondary; an attempt on the primary that fails with fallback enabled,  *)
(* attempts remaining and a secondary configured is followed at once by    *)
(* the attempt on the secondary; an attempt on the secondary that succeeds *)
(* returns that result in the same step, without a delay and without a     *)
(* further call of the primary; with a secondary configured the delay      *)
(* starts only on a failed attempt on the secondary.                       *)
(***************************************************************************)
C31_Results(service) ==
    AdapterResults(service, config.lines, policy.game_state, policy.difficulty)

C31_Positions(service) == {r.position : r \in {x \in C31_Results(service) : x.ok}}

C31_CanFail(service) == \E r \in C31_Results(service) : ~r.ok

\* This step returns the success of an adapter.
C31_ReturnsOk(service) ==
    /\ policy'.pc = "idle"
    /\ policy'.outcome.status = "Ok"
    /\ policy'.outcome.position \in C31_Positions(service)

C31_SecondaryDue ==
    /\ policy.cfg.enable_fallback
    /\ policy'.attempts < policy.cfg.max_retry_attempts
    /\ policy.cfg.fallback_ai_service # "None"

C31_Primary ==
    (policy.pc = "primary" /\ policy' # policy)
        => /\ policy'.primary_calls = policy.primary_calls + 1
           /\ policy'.fallback_calls = policy.fallback_calls
           /\ \/ C31_ReturnsOk(config.ai_service)
              \/ /\ C31_CanFail(config.ai_service)
                 /\ policy'.outcome.status # "Ok"
                 /\ C31_SecondaryDue => policy'.pc = "fallback"

C31_Secondary ==
    (policy.pc = "fallback" /\ policy' # policy)
        => /\ policy'.fallback_calls = policy.fallback_calls + 1
           /\ policy'.primary_calls = policy.primary_calls
           /\ \/ C31_ReturnsOk(policy.cfg.fallback_ai_service)
              \/ /\ C31_CanFail(policy.cfg.fallback_ai_service)
                 /\ policy'.pc = "sleep"

C31_Delay ==
    (policy'.pc = "sleep" /\ policy.pc # "sleep"
     /\ policy.cfg.fallback_ai_service # "None")
        => policy.pc = "fallback"

C31_SuccessAtOnce == [][C31_Primary /\ C31_Secondary /\ C31_Delay]_vars

\* The primary has failed once and the secondary, asked once, has answered
\* with its fixed move: the call has returned it after one attempt.
C31_Witness ==
    /\ config.ai_service = "Failing"
    /\ policy.cfg = FallbackConfig(TRUE, MaxAttempts, "Fixed")
    /\ policy.pc = "idle"
    /\ policy.outcome.status = "Ok"
    /\ policy.outcome.position = FixedReply
    /\ policy.primary_calls = 1
    /\ policy.fallback_calls = 1
    /\ policy.attempts = 1

(***************************************************************************)
(* C32.  A change_difficulty that reads a session whose thinking flag is   *)
(* set fails with AiThinkingError and leaves the registry as it is.  The   *)
(* write of a change_difficulty changes only ai_difficulty: the session    *)
(* stored after the write is the session stored immediately before it      *)
(* with the new difficulty, whatever other requests run at the same time.  *)
(***************************************************************************)
\* This step is the read of a change_difficulty of task t.
C32_Reads(t) ==
    /\ task[t].pc = "idle"
    /\ \/ task'[t].op = "change"
       \/ response'.op = "change" /\ response'.task = t

C32_Id(t) == IF task'[t].op = "change" THEN task'[t].id ELSE response'.id

C32_Busy(t) ==
    (/\ C32_Reads(t)
     /\ session_exists(sessions, C32_Id(t))
     /\ sessions[C32_Id(t)].ai_thinking)
        => /\ response'.task = t
           /\ response'.result.status = "AiThinkingError"
           /\ sessions' = sessions

\* This step is the write of a change_difficulty of task t.
C32_Writes(t) ==
    /\ task[t].op = "change"
    /\ task[t].pc = "change_store"
    /\ task'[t].pc = "idle"

C32_OnlyDifficulty(t) ==
    (C32_Writes(t) /\ session_exists(sessions, task[t].id))
        => /\ session_exists(sessions', task[t].id)
           /\ sessions'[task[t].id]
                  = [sessions[task[t].id] EXCEPT !.ai_difficulty = task[t].difficulty]

C32_DifficultyOnly ==
    [][\A t \in Tasks : C32_Busy(t) /\ C32_OnlyDifficulty(t)]_vars

(***************************************************************************)
(* C33.  For the board of every game state and either mover:               *)
(* get_valid_moves lists exactly the positions for which is_valid_move     *)
(* holds, in strictly ascending row-major order (so each once), and the    *)
(* list is empty exactly when the mover has no legal placement.            *)
(***************************************************************************)
C33_RowMajor(moves) ==
    \A i \in 1..(Len(moves) - 1) :
        moves[i].row * BOARD_SIZE + moves[i].col
            < moves[i + 1].row * BOARD_SIZE + moves[i + 1].col

C33_Listed(board, mover) ==
    LET moves == get_valid_moves(board, mover) IN
    /\ SeqToSet(moves) = {q \in Positions : is_valid_move(board, q, mover)}
    /\ C33_RowMajor(moves)
    /\ (moves = << >>) <=> ~CanMove(board, mover)

C33_ValidMovesRowMajor ==
    \A id \in DOMAIN games : \A mover \in Player :
        C33_Listed(games[id].board, mover)

\* An adapter has been asked for a move, some moves into a game, on a board
\* where the list for the mover has at least three entries in more than one
\* row, and has answered with one of them.
C33_Witness ==
    /\ call.op = "calculate_move"
    /\ call.id \in DOMAIN games
    /\ LET gs == games[call.id]
           moves == get_valid_moves(gs.board, gs.current_player)
       IN /\ Len(moves) >= 3
          /\ moves[1].row < moves[Len(moves)].row
          /\ Len(gs.move_history) >= 2
          /\ call.status = "Ok"
          /\ call.position \in SeqToSet(moves)

(***************************************************************************)
(* C34.  As long as the service keeps one deterministic adapter (the mock  *)
(* with a fixed move, the default mock, the built-in adapter; no           *)
(* set_ai_service replaces it by another) and serves one request at a      *)
(* time: two stored sessions of the same difficulty that are at rest and   *)
(* whose move logs hold the same human moves in the same order have the    *)
(* same move log, opponent replies included, and the same board, mover and *)
(* status.                                                                 *)
(***************************************************************************)
C34_AtRest(id) == \A t \in Tasks : ~(Accepted(t) /\ task[t].id = id)

\* The positions of the human's moves of a log, in order.
C34_HumanMoves(log) ==
    LET black(m) == m.player = "Black" IN LogPositions(SelectSeq(log, black))

C34_SameGame(a, b) ==
    (/\ a.ai_difficulty = b.ai_difficulty
     /\ C34_HumanMoves(a.game_state.move_history)
            = C34_HumanMoves(b.game_state.move_history))
        => /\ a.game_state = b.game_state
           /\ a.current_player = b.current_player
           /\ a.status = b.status

C34_SameReplies ==
    \A a, b \in DOMAIN sessions :
        (C34_AtRest(a) /\ C34_AtRest(b)) => C34_SameGame(sessions[a], sessions[b])

\* The deterministic adapters a service is given.
C34_Adapters == {"Fixed", "Mock", "Local"}

\* Every request is served by the adapter `service`.
C34_ServedBy(service) == config.ai_service = service

C34_ReplyDeterministic ==
    \A service \in C34_Adapters : []C34_ServedBy(service) => []C34_SameReplies

\* Two sessions of the same difficulty have each been given the same two
\* human moves and hold the same four-move log.
C34_Witness ==
    \E a, b \in DOMAIN sessions :
        /\ a # b
        /\ C34_AtRest(a) /\ C34_AtRest(b)
        /\ sessions[a].ai_difficulty = sessions[b].ai_difficulty
        /\ Len(sessions[a].game_state.move_history) = 4
        /\ sessions[a].game_state.move_history = sessions[b].game_state.move_history
        /\ sessions[a].game_state.board = sessions[b].game_state.board

(***************************************************************************)
(* C35.  When a make_player_move returns success, the session it has       *)
(* stored is Finished, or it is the human's turn with the thinking flag    *)
(* clear and the human has a legal placement.                              *)
(***************************************************************************)
C35_Playable(session) ==
    \/ is_finished(session)
    \/ /\ session.current_player = "Black"
       /\ session.game_state.current_player = "Black"
       /\ ~session.ai_thinking
       /\ CanMove(session.game_state.board, "Black")

C35_Step(t) ==
    (/\ MoveReturns(t)
     /\ response'.result.status = "Ok"
     /\ session_exists(sessions', task[t].id))
        => C35_Playable(sessions'[task[t].id])

C35_PlayableOrOver == [][\A t \in Tasks : C35_Step(t)]_vars

(***************************************************************************)
(* C36.  In every step, for every session stored before and after it, the  *)
(* move log stored before is a prefix of the move log stored after.        *)
(***************************************************************************)
C36_Prefix(before, after) ==
    /\ Len(before) <= Len(after)
    /\ SubSeq(after, 1, Len(before)) = before

C36_Step ==
    \A id \in (DOMAIN sessions) \cap (DOMAIN sessions') :
        C36_Prefix(sessions[id].game_state.move_history,
                   sessions'[id].game_state.move_history)

C36_LogOnlyGrows == [][C36_Step]_vars

(***************************************************************************)
(* C37.  In every stored session the mover of the session is the mover of  *)
(* its game state and the session is Finished exactly when its game state  *)
(* is.  Every session value that create_session, make_player_move or       *)
(* change_difficulty writes to the registry has the thinking flag set only *)
(* with White as the mover; set_ai_thinking sets the flag of a stored      *)
(* session whoever the mover is.                                           *)
(***************************************************************************)
C37_Mirror(session) ==
    /\ session.current_player = session.game_state.current_player
    /\ is_finished(session) <=> game_is_finished(session.game_state)

C37_FlagMover(session) == session.ai_thinking => session.current_player = "White"

\* The session values this step writes to the registry.
C37_Written ==
    {id \in DOMAIN sessions' : id \notin DOMAIN sessions \/ sessions'[id] # sessions[id]}

C37_WriteStep ==
    response'.op # "set_thinking"
        => \A id \in C37_Written : C37_FlagMover(sessions'[id])

C37_MirrorAgrees ==
    /\ [](\A id \in DOMAIN sessions : C37_Mirror(sessions[id]))
    /\ [][C37_WriteStep]_vars

\* Seven moves into a game a make_player_move waits for the adapter: the
\* stored session has the flag set and White as mover on both levels.
C37_Witness ==
    \E t \in Tasks :
        /\ task[t].pc = "move_ai"
        /\ session_exists(sessions, task[t].id)
        /\ LET s == sessions[task[t].id] IN
           /\ s.ai_thinking
           /\ s.current_player = "White"
           /\ s.game_state.current_player = "White"
           /\ Len(s.game_state.move_history) = 7

\* C37 as stated: in every stored session a set flag goes with White as
\* the mover.
C37_FlagOnlyWithWhite ==
    \A id \in DOMAIN sessions :
        C37_Mirror(sessions[id]) /\ C37_FlagMover(sessions[id])

(***************************************************************************)
(* C38.  Every session a step of cleanup_inactive_sessions removes is idle *)
(* at that step: the last_move_at stored for it at the removal is earlier  *)
(* than the current time minus the timeout.                                *)
(***************************************************************************)
\* The sessions a step of the sweep of task t removes.
C38_Removed(t) ==
    IF task[t].pc = "sweep_remove" /\ task'[t].pc = "sweep_remove"
          /\ task'[t] # task[t]
    THEN (DOMAIN sessions) \ (DOMAIN sessions')
    ELSE {}

C38_Step(t) ==
    \A id \in C38_Removed(t) :
        sessions[id].last_move_at < now - config.session_timeout_minutes

C38_OnlyIdleRemoved == [][\A t \in Tasks : C38_Step(t)]_vars

(***************************************************************************)
(* C39.  Every call of calculate_move_with_fallback returns, whatever the  *)
(* configuration (a maximum of 0 attempts and fallback enabled without a   *)
(* secondary included), given that adapter calls return and sleeps end.    *)
(* With the maximum N it calls the primary at most max(1, N) times and the *)
(* secondary at most max(0, N - 1) times, and what it returns is a         *)
(* position one of its adapters answers with, or AiThinkingError.          *)
(***************************************************************************)
C39_Max(a, b) == IF a >= b THEN a ELSE b

C39_Bounded ==
    /\ policy.primary_calls <= C39_Max(1, policy.cfg.max_retry_attempts)
    /\ policy.fallback_calls <= C39_Max(0, policy.cfg.max_retry_attempts - 1)

C39_Answers(service) ==
    IF service = "None" THEN {}
    ELSE {r.position : r \in {x \in AdapterResults(service, config.lines,
                                                   policy.game_state,
                                                   policy.difficulty) : x.ok}}

C39_Outcome ==
    (policy.pc = "idle" /\ policy.outcome.status # "None")
        => \/ policy.outcome.status = "AiThinkingError"
           \/ /\ policy.outcome.status = "Ok"
              /\ policy.outcome.position
                     \in C39_Answers(config.ai_service)
                         \cup C39_Answers(policy.cfg.fallback_ai_service)

C39_LoopTerminates ==
    /\ [](C39_Bounded /\ C39_Outcome)
    /\ (policy.pc # "idle") ~> (policy.pc = "idle")

\* Fallback is enabled without a secondary and the maximum is 0: the call
\* has returned AiThinkingError after one call of the primary.
C39_Witness ==
    /\ policy.cfg = FallbackConfig(TRUE, 0, "None")
    /\ policy.pc = "idle"
    /\ policy.outcome.status = "AiThinkingError"
    /\ policy.primary_calls = 1
    /\ policy.fallback_calls = 0

(***************************************************************************)
(* C40.  With one request at a time: when the adapter's position is not a  *)
(* legal placement for White, make_player_move returns GameError after the *)
(* one adapter call, and the session it stores has the board and the move  *)
(* log of the game state after the human's move alone, the thinking flag   *)
(* clear, and the record log (move_history of the session) it had before   *)
(* the call.                                                               *)
(***************************************************************************)
\* Task t returns the rejection of the adapter's position in this step.
C40_Rejects(t) ==
    /\ task[t].op = "move"
    /\ task[t].pc = "move_finish"
    /\ task[t].pending.status = "GameError"
    /\ task'[t].pc = "idle"
    /\ session_exists(sessions, task[t].id)

C40_Step(t) ==
    C40_Rejects(t)
        => LET before == sessions[task[t].id]
               after == sessions'[task[t].id]
           IN /\ response'.result.status = "GameError"
              /\ response'.result.ai_move = << >>
              /\ after.game_state.board = before.game_state.board
              /\ LogPositions(after.game_state.move_history)
                     = Append(task[t].base, task[t].position)
              /\ ~after.ai_thinking
              /\ after.move_history = before.move_history

C40_IllegalReplyDropped == [][\A t \in Tasks : C40_Step(t)]_vars

====
